---- MODULE Spec2Model ----
(***************************************************************************)
(* Model of the process orchestration layer of foundry-mcp-server:         *)
(*   - the Background Process Registry (tools/anvil.ts: the module-level   *)
(*     slot anvilProcess, the tools anvil_start / anvil_stop /             *)
(*     anvil_status, and cleanupAnvil),                                    *)
(*   - the host process (index.ts: SIGTERM / SIGINT handlers, main()),     *)
(*   - the Command Runner (utils.ts: runForge / runCast).                  *)
(*                                                                         *)
(* Node.js semantics the model relies on:                                  *)
(*   - a tool handler with no await runs to completion before any other    *)
(*     callback of the event loop (one handler = one atomic action);       *)
(*   - child_process.spawn throws synchronously for invalid arguments and  *)
(*     for most uv_spawn errors, but for ENOENT/EACCES/EAGAIN/EMFILE/      *)
(*     ENFILE it returns a ChildProcess with pid undefined and emits       *)
(*     'error' on the next tick; an 'error' event with no listener is an   *)
(*     uncaught exception, which ends the host;                            *)
(*   - ChildProcess.killed becomes true only when kill() delivers a signal;*)
(*     it does not change when the child exits on its own, and kill() on   *)
(*     an exited child delivers nothing, returns false and leaves killed   *)
(*     false.                                                              *)
(***************************************************************************)
EXTENDS Naturals, Sequences, FiniteSets

VARIABLES
    anvilProcess,   \* the registry slot: NULL or the index of a handle in children
    children,       \* every ChildProcess created by spawn("anvil"), in creation order
    task,           \* the tool invocations in flight (one record per request slot)
    host,           \* the host process: "up", "exit(0)", "exit(1)" or "uncaught"
    mainState,      \* main(): "connecting", "connected" or "failed"
    tickError,      \* the handle whose 'error' event is queued for the next tick, or NULL
    cmd,            \* the last Command Runner call: its inputs, outcome and result
    drv,            \* the runChiselWithScript call being followed: subprocess, streams, promise
    built,          \* the script a chisel tool has assembled and is about to hand to the driver
    clock,          \* Date.now(), in milliseconds
    saved,          \* the session identifiers generated so far, one per generating invocation
    files,          \* the .chisel_script_* files that handlers which have returned left behind
    resp,           \* the payloads the chisel tool handler being followed has returned
    gas             \* the gas_regression_test invocation being followed

\* the state of tools/chisel.ts
\* the project directory and the responses of the chisel tool handlers
handlerVars == <<files, resp, gas>>

chiselVars == <<drv, built, clock, saved, files, resp, gas>>

\* the state of tools/anvil.ts, index.ts and utils.ts
serverVars == <<anvilProcess, children, task, host, mainState, tickError, cmd>>

vars == <<anvilProcess, children, task, host, mainState, tickError, cmd, drv, built, clock, saved,
         files, resp, gas>>

----------------------------------------------------------------------------
(* Bounds *)

\* handles the registry may create in one run
MaxSpawns == 2
\* request slots: invocations that can be in flight at the same time
NumTasks == 2
\* lines of a script handed to the session driver
MaxLines == 2
\* characters the interactive subprocess writes on one stream
MaxOut == 2
\* variables a debugging or experiment request asks to inspect
MaxVars == 1
\* milliseconds the clock advances in one run
MaxClock == 1
\* invocations that generate a session identifier in one run
MaxSaved == 2

Tasks == 1..NumTasks

----------------------------------------------------------------------------
(* Values *)

NULL == 0
\* ChildProcess.pid of a child that could not be launched
Undefined == 0

AnvilTools == {"anvil_start", "anvil_stop", "anvil_status"}

\* what spawn("anvil", ...) can do: launch, fail on the next tick, or throw
SpawnOutcomes == {"ok", "asyncError", "throw"}

AlreadyRunningMsg == "Anvil is already running. Use anvil_stop to stop it first."
NotRunningMsg == "No Anvil process is currently running"
StartedMsg == "Anvil started successfully"
StoppedMsg == "Anvil stopped successfully"
SpawnThrowMsg == "err.message"

NoPayload == [tool |-> "none"]
IdleTask == [st |-> "idle", tool |-> "none", conc |-> FALSE, payload |-> NoPayload]

----------------------------------------------------------------------------
(* ChildProcess *)

\* the OS process behind handle h is alive (it may already have been signalled)
Alive(ch, h) == ch[h].st \in {"running", "signalled"}

\* `anvilProcess && !anvilProcess.killed`
HeldNotKilled(ap, ch) == ap # NULL /\ ~ch[ap].killed

\* ChildProcess.kill('SIGTERM'): delivers the signal and sets killed when the
\* child is alive; otherwise does nothing (returns false).
kill(ch, h) ==
    [ch EXCEPT ![h] =
        IF Alive(ch, h)
        THEN [@ EXCEPT !.killed = TRUE, !.st = "signalled", !.killCalls = @ + 1,
                       !.sigterms = @ + 1]
        ELSE [@ EXCEPT !.killCalls = @ + 1]]

\* spawn("anvil", args, ...) when it does not throw: the new ChildProcess
spawn(ch, outcome) ==
    IF outcome = "ok"
    THEN [pid |-> Len(ch) + 1, killed |-> FALSE, st |-> "running",
          killCalls |-> 0, sigterms |-> 0]
    ELSE [pid |-> Undefined, killed |-> FALSE, st |-> "failed",
          killCalls |-> 0, sigterms |-> 0]

----------------------------------------------------------------------------
(* Background Process Registry *)

\* cleanupAnvil that signals the held process but keeps the handle in the slot
cleanupAnvilFn_keepsHandle(s) ==
    IF HeldNotKilled(s.ap, s.ch)
    THEN [ap |-> s.ap, ch |-> kill(s.ch, s.ap)]
    ELSE s

\* cleanupAnvil() as a function of the registry state
cleanupAnvilFn(s) ==
    IF HeldNotKilled(s.ap, s.ch)
    THEN [ap |-> NULL, ch |-> kill(s.ch, s.ap)]
    ELSE s

Registry == [ap |-> anvilProcess, ch |-> children]

\* cleanupAnvil() as called by the host's handlers
cleanupAnvil ==
    /\ anvilProcess' = cleanupAnvilFn(Registry).ap
    /\ children' = cleanupAnvilFn(Registry).ch

Serving == host = "up" /\ mainState = "connected" /\ tickError = NULL

\* a request for `tool` arrives; its handler has not run yet
Issue(t, tool) ==
    /\ Serving
    /\ task[t].st = "idle"
    /\ task' = [task EXCEPT ![t] =
                   [st |-> "issued", tool |-> tool,
                    conc |-> (tool = "anvil_start" /\ anvilProcess = NULL),
                    payload |-> NoPayload]]
    /\ UNCHANGED <<anvilProcess, children, host, mainState, tickError, cmd, chiselVars>>

\* the client has read the response
Ack(t) ==
    /\ task[t].st = "done"
    /\ task' = [task EXCEPT ![t] = IdleTask]
    /\ UNCHANGED <<anvilProcess, children, host, mainState, tickError, cmd, chiselVars>>

Done(t, payload) == [task EXCEPT ![t].st = "done", ![t].payload = payload]

\* anvil_start without the already-running check
anvil_start_unchecked(t, outcome) ==
    /\ Serving
    /\ task[t].st = "issued" /\ task[t].tool = "anvil_start"
    /\ IF outcome = "throw"
       THEN /\ task' = Done(t, [tool |-> "anvil_start", success |-> FALSE,
                                error |-> SpawnThrowMsg])
            /\ UNCHANGED <<anvilProcess, children, tickError>>
       ELSE /\ Len(children) < MaxSpawns
            /\ children' = Append(children, spawn(children, outcome))
            /\ anvilProcess' = Len(children) + 1
            /\ tickError' = IF outcome = "asyncError" THEN Len(children) + 1 ELSE NULL
            /\ task' = Done(t, [tool |-> "anvil_start", success |-> TRUE,
                                pid |-> spawn(children, outcome).pid,
                                message |-> StartedMsg])
    /\ UNCHANGED <<host, mainState, cmd, chiselVars>>

\* anvil_start with a suspension point between the already-running check and
\* the spawn: the check and the assignment run as two separate callbacks
anvil_start_suspends(t, outcome) ==
    /\ Serving
    /\ task[t].tool = "anvil_start"
    /\ \/ /\ task[t].st = "issued"
          /\ IF HeldNotKilled(anvilProcess, children)
             THEN task' = Done(t, [tool |-> "anvil_start", success |-> FALSE,
                                   error |-> AlreadyRunningMsg])
             ELSE task' = [task EXCEPT ![t].st = "checked"]
          /\ UNCHANGED <<anvilProcess, children, tickError>>
       \/ /\ task[t].st = "checked"
          /\ IF outcome = "throw"
             THEN /\ task' = Done(t, [tool |-> "anvil_start", success |-> FALSE,
                                      error |-> SpawnThrowMsg])
                  /\ UNCHANGED <<anvilProcess, children, tickError>>
             ELSE /\ Len(children) < MaxSpawns
                  /\ children' = Append(children, spawn(children, outcome))
                  /\ anvilProcess' = Len(children) + 1
                  /\ tickError' = IF outcome = "asyncError" THEN Len(children) + 1
                                  ELSE NULL
                  /\ task' = Done(t, [tool |-> "anvil_start", success |-> TRUE,
                                      pid |-> spawn(children, outcome).pid,
                                      message |-> StartedMsg])
    /\ UNCHANGED <<host, mainState, cmd, chiselVars>>

anvil_start(t, outcome) ==
    /\ Serving
    /\ task[t].st = "issued" /\ task[t].tool = "anvil_start"
    /\ IF HeldNotKilled(anvilProcess, children)
       THEN /\ task' = Done(t, [tool |-> "anvil_start", success |-> FALSE,
                                error |-> AlreadyRunningMsg])
            /\ UNCHANGED <<anvilProcess, children, tickError>>
       ELSE IF outcome = "throw"
       THEN /\ task' = Done(t, [tool |-> "anvil_start", success |-> FALSE,
                                error |-> SpawnThrowMsg])
            /\ UNCHANGED <<anvilProcess, children, tickError>>
       ELSE /\ Len(children) < MaxSpawns
            /\ children' = Append(children, spawn(children, outcome))
            /\ anvilProcess' = Len(children) + 1
            /\ tickError' = IF outcome = "asyncError" THEN Len(children) + 1 ELSE NULL
            /\ task' = Done(t, [tool |-> "anvil_start", success |-> TRUE,
                                pid |-> spawn(children, outcome).pid,
                                message |-> StartedMsg])
    /\ UNCHANGED <<host, mainState, cmd, chiselVars>>

\* anvil_stop without the not-running guard: kill on an empty slot is a
\* TypeError, which the handler's catch turns into its generic failure payload
anvil_stop_unguarded(t) ==
    /\ Serving
    /\ task[t].st = "issued" /\ task[t].tool = "anvil_stop"
    /\ IF anvilProcess = NULL
       THEN /\ task' = Done(t, [tool |-> "anvil_stop", success |-> FALSE,
                                error |-> "err.message"])
            /\ UNCHANGED <<anvilProcess, children>>
       ELSE /\ children' = kill(children, anvilProcess)
            /\ anvilProcess' = NULL
            /\ task' = [u \in Tasks |->
                         IF u = t
                         THEN [task[t] EXCEPT !.st = "done", !.conc = FALSE,
                                 !.payload = [tool |-> "anvil_stop", success |-> TRUE,
                                              message |-> StoppedMsg]]
                         ELSE [task[u] EXCEPT !.conc = FALSE]]
    /\ UNCHANGED <<host, mainState, tickError, cmd, chiselVars>>

\* anvil_stop that clears the slot without signalling the held process
anvil_stop_noKill(t) ==
    /\ Serving
    /\ task[t].st = "issued" /\ task[t].tool = "anvil_stop"
    /\ IF ~HeldNotKilled(anvilProcess, children)
       THEN /\ task' = Done(t, [tool |-> "anvil_stop", success |-> FALSE,
                                error |-> NotRunningMsg])
            /\ UNCHANGED <<anvilProcess, children>>
       ELSE /\ children' = children
            /\ anvilProcess' = NULL
            /\ task' = [u \in Tasks |->
                         IF u = t
                         THEN [task[t] EXCEPT !.st = "done", !.conc = FALSE,
                                 !.payload = [tool |-> "anvil_stop", success |-> TRUE,
                                              message |-> StoppedMsg]]
                         ELSE [task[u] EXCEPT !.conc = FALSE]]
    /\ UNCHANGED <<host, mainState, tickError, cmd, chiselVars>>

anvil_stop(t) ==
    /\ Serving
    /\ task[t].st = "issued" /\ task[t].tool = "anvil_stop"
    /\ IF ~HeldNotKilled(anvilProcess, children)
       THEN /\ task' = Done(t, [tool |-> "anvil_stop", success |-> FALSE,
                                error |-> NotRunningMsg])
            /\ UNCHANGED <<anvilProcess, children>>
       ELSE /\ children' = kill(children, anvilProcess)
            /\ anvilProcess' = NULL
            /\ task' = [u \in Tasks |->
                         IF u = t
                         THEN [task[t] EXCEPT !.st = "done", !.conc = FALSE,
                                 !.payload = [tool |-> "anvil_stop", success |-> TRUE,
                                              message |-> StoppedMsg]]
                         ELSE [task[u] EXCEPT !.conc = FALSE]]
    /\ UNCHANGED <<host, mainState, tickError, cmd, chiselVars>>

\* `anvilProcess && !anvilProcess.killed` as a JavaScript value
isRunning(ap, ch) ==
    IF ap = NULL THEN "null" ELSE IF ch[ap].killed THEN "false" ELSE "true"

anvil_status(t) ==
    /\ Serving
    /\ task[t].st = "issued" /\ task[t].tool = "anvil_status"
    /\ task' = Done(t, [tool |-> "anvil_status",
                        isRunning |-> isRunning(anvilProcess, children),
                        pid |-> IF isRunning(anvilProcess, children) = "true"
                                THEN children[anvilProcess].pid ELSE NULL])
    /\ UNCHANGED <<anvilProcess, children, host, mainState, tickError, cmd, chiselVars>>

----------------------------------------------------------------------------
(* Host process *)

\* `await server.connect(transport)` resolves: main() completes
Connect ==
    /\ host = "up" /\ mainState = "connecting"
    /\ mainState' = "connected"
    /\ UNCHANGED <<anvilProcess, children, task, host, tickError, cmd, chiselVars>>

\* main().catch(err => { console.error(...); cleanupAnvil(); process.exit(1); })
MainCatch ==
    /\ host = "up" /\ mainState = "connecting"
    /\ mainState' = "failed"
    /\ cleanupAnvil
    /\ host' = "exit(1)"
    /\ UNCHANGED <<task, tickError, cmd, chiselVars>>

\* a SIGTERM handler that exits without calling cleanupAnvil
SIGTERM_exitsOnly ==
    /\ host = "up" /\ tickError = NULL
    /\ host' = "exit(0)"
    /\ UNCHANGED <<anvilProcess, children, task, mainState, tickError, cmd, chiselVars>>

\* process.on('SIGTERM', () => { cleanupAnvil(); process.exit(0); })
SIGTERM ==
    /\ host = "up" /\ tickError = NULL
    /\ cleanupAnvil
    /\ host' = "exit(0)"
    /\ UNCHANGED <<task, mainState, tickError, cmd, chiselVars>>

\* process.on('SIGINT', () => { cleanupAnvil(); process.exit(0); })
SIGINT ==
    /\ host = "up" /\ tickError = NULL
    /\ cleanupAnvil
    /\ host' = "exit(0)"
    /\ UNCHANGED <<task, mainState, tickError, cmd, chiselVars>>

\* next tick after a failed spawn: the ChildProcess emits 'error'; anvil.ts
\* attaches no 'error' listener, so the event is an uncaught exception.
EmitSpawnError ==
    /\ host = "up" /\ tickError # NULL
    /\ host' = "uncaught"
    /\ tickError' = NULL
    /\ UNCHANGED <<anvilProcess, children, task, mainState, cmd, chiselVars>>

\* the simulator process ends: on its own, or after a SIGTERM it was sent
ProcExit(h) ==
    /\ h \in 1..Len(children)
    /\ Alive(children, h)
    /\ tickError = NULL
    /\ children' = [children EXCEPT ![h].st = "exited"]
    /\ UNCHANGED <<anvilProcess, task, host, mainState, tickError, cmd, chiselVars>>

----------------------------------------------------------------------------
(* Specification of the registry and the host *)

NoCmd == [file |-> "none"]

\* no runChiselWithScript call is being followed
NoDrv == [st |-> "none"]

\* no chisel tool is between assembling its script and calling the driver
NoBuilt == [tool |-> "none"]

\* no gas_regression_test invocation is being followed
NoGas == [phase |-> "idle"]

Init ==
    /\ anvilProcess = NULL
    /\ children = <<>>
    /\ task = [t \in Tasks |-> IdleTask]
    /\ host = "up"
    /\ mainState = "connecting"
    /\ tickError = NULL
    /\ cmd = NoCmd
    /\ drv = NoDrv
    /\ built = NoBuilt
    /\ clock = 0
    /\ saved = <<>>
    /\ files = {}
    /\ resp = <<>>
    /\ gas = NoGas

Next ==
    \/ \E t \in Tasks, tool \in AnvilTools : Issue(t, tool)
    \/ \E t \in Tasks : Ack(t)
    \/ \E t \in Tasks, o \in SpawnOutcomes : anvil_start(t, o)
    \/ \E t \in Tasks : anvil_stop(t)
    \/ \E t \in Tasks : anvil_status(t)
    \/ Connect
    \/ MainCatch
    \/ SIGTERM
    \/ SIGINT
    \/ EmitSpawnError
    \/ \E h \in 1..MaxSpawns : ProcExit(h)

Spec == Init /\ [][Next]_vars

----------------------------------------------------------------------------
(* Command Runner (utils.ts) *)

\* longest captured stream, in chunks
MaxText == 2
\* longest argument vector
MaxArgs == 2

\* Captured text is a sequence of chunks; " " is a whitespace chunk, so
\* that trimming is distinguishable from verbatim capture.
Chunks == {"x", " "}
Texts == UNION {[1..n -> Chunks] : n \in 0..MaxText}

\* Argument tokens; "NUL" stands for a string holding a null byte, which
\* execFile rejects with a synchronous ERR_INVALID_ARG_VALUE.
Tokens == {"build", "a;b", "NUL"}
ArgVectors == UNION {[1..n -> Tokens] : n \in 0..MaxArgs}
HasNul(args) == \E i \in 1..Len(args) : args[i] = "NUL"

CommandFailedMsg == <<"Command failed">>
SpawnENOENTMsg == <<"spawn ENOENT">>
InvalidArgMsg == <<"ERR_INVALID_ARG_VALUE">>

\* What execFileAsync(file, args, ...) can do:
\*   exit0      the child ran and exited with code 0
\*   nonzero    the child ran and exited with a nonzero code
\*   signal     the child was ended by a signal (maxBuffer overrun included)
\*   launchFail the child could not be launched (ENOENT ...): nothing captured
\*   throw      execFile threw synchronously (argument validation)
ExecOutcomes(args) ==
    IF HasNul(args)
    THEN {[kind |-> "throw", stdout |-> <<>>, stderr |-> <<>>]}
    ELSE [kind : {"exit0", "nonzero", "signal"}, stdout : Texts, stderr : Texts]
         \cup {[kind |-> "launchFail", stdout |-> <<>>, stderr |-> <<>>],
               [kind |-> "throw", stdout |-> <<>>, stderr |-> <<>>]}

\* The error execFileAsync rejects with. The promisified execFile sets
\* err.stdout and err.stderr on every error passed to its callback; an error
\* thrown synchronously carries a message only.
ExecError(o) ==
    IF o.kind = "throw" THEN [message |-> InvalidArgMsg]
    ELSE IF o.kind = "launchFail"
    THEN [message |-> SpawnENOENTMsg, stdout |-> <<>>, stderr |-> <<>>]
    ELSE [message |-> CommandFailedMsg, stdout |-> o.stdout, stderr |-> o.stderr]

\* `a ?? b` on optional fields of err
Field(err, f, default) == IF f \in DOMAIN err THEN err[f] ELSE default

\* runForge / runCast without the try/catch: the rejection of execFileAsync
\* propagates to the caller
runCommand_noCatch(fallback, o) ==
    IF o.kind = "exit0"
    THEN [settled |-> "resolved",
          value |-> [success |-> TRUE, stdout |-> o.stdout, stderr |-> o.stderr]]
    ELSE [settled |-> "rejected", value |-> ExecError(o)]

\* the body shared by runForge and runCast: try { await execFileAsync } catch
runCommand(fallback, o) ==
    IF o.kind = "exit0"
    THEN [settled |-> "resolved",
          value |-> [success |-> TRUE, stdout |-> o.stdout, stderr |-> o.stderr]]
    ELSE [settled |-> "resolved",
          value |-> [success |-> FALSE,
                     stdout |-> Field(ExecError(o), "stdout", <<>>),
                     stderr |-> Field(ExecError(o), "stderr",
                                      Field(ExecError(o), "message", fallback))]]

\* What /bin/sh -c makes of the words of a command line: a `;` ends the
\* command, so the word "a;b" gives the first command the word "a" and
\* everything after it belongs to another command.
RECURSIVE ShellWords(_)
ShellWords(args) ==
    IF args = <<>> THEN <<>>
    ELSE IF Head(args) = "a;b" THEN <<"a">>
    ELSE <<Head(args)>> \o ShellWords(Tail(args))

\* child_process (normalizeSpawnArguments): with options.shell the file and
\* the arguments are joined into one line run by /bin/sh -c; without it the
\* vector is handed to the executable as it is
ExecArgv(shell, args) == IF shell THEN ShellWords(args) ELSE args

\* the same call with { shell: true }
ChildArgv_viaShell(args) == ExecArgv(TRUE, args)

\* what the child receives as argv[1..] when it is launched: neither
\* execFileAsync(file, args, {cwd, env}) nor spawn("anvil", args, {cwd, env,
\* stdio}) sets options.shell
ChildArgv(args) == ExecArgv(FALSE, args)

RunRecord(file, fallback, args, o) ==
    [file |-> file, args |-> args, outcome |-> o,
     launched |-> o.kind \in {"exit0", "nonzero", "signal"},
     argv |-> ChildArgv(args),
     result |-> runCommand(fallback, o)]

\* a runForge that also clears the registry slot
runForge_clearsSlot(args, o) ==
    /\ host = "up" /\ cmd = NoCmd
    /\ cmd' = RunRecord("forge", <<"forge failed">>, args, o)
    /\ anvilProcess' = NULL
    /\ UNCHANGED <<children, task, host, mainState, tickError, chiselVars>>

\* One Command Runner call is followed at a time: cmd holds the call until
\* the awaiting tool handler has taken its result.
runForge(args, o) ==
    /\ host = "up" /\ cmd = NoCmd
    /\ cmd' = RunRecord("forge", <<"forge failed">>, args, o)
    /\ UNCHANGED <<anvilProcess, children, task, host, mainState, tickError, chiselVars>>

runCast(args, o) ==
    /\ host = "up" /\ cmd = NoCmd
    /\ cmd' = RunRecord("cast", <<"cast failed">>, args, o)
    /\ UNCHANGED <<anvilProcess, children, task, host, mainState, tickError, chiselVars>>

\* the tool handler that awaited the call resumes with cmd.result.value
CmdReturn ==
    /\ cmd # NoCmd
    /\ cmd' = NoCmd
    /\ UNCHANGED <<anvilProcess, children, task, host, mainState, tickError, chiselVars>>

\* a followed call of runForge / runCast
IsRunnerCall == cmd.file \in {"forge", "cast"}

\* An optional input field: <<>> when the field is not given, <<v>> when it is.
Absent == <<>>
Some(v) == <<v>>
\* `if (x)` on an optional string / an optional number
TruthyStr(opt) == opt # Absent /\ opt[1] # ""
TruthyNum(opt) == opt # Absent /\ opt[1] # 0

\* Number.prototype.toString() on the numbers the inputs are drawn from
NumToString(n) == IF n = 0 THEN "0" ELSE "1"

\* `if (x) args.push(flag, x)` for a string and for a number
FlagStr(flag, opt) == IF TruthyStr(opt) THEN <<flag, opt[1]>> ELSE <<>>
FlagNum(flag, opt) == IF TruthyNum(opt) THEN <<flag, NumToString(opt[1])>> ELSE <<>>

OptNums == {Absent, Some(0), Some(1)}
OptStrs == {Absent, Some(""), Some("a;b")}

AnvilInputs ==
    [port : OptNums, chainId : OptNums, accounts : {Absent, Some(1)},
     balance : {Absent, Some("x")}, mnemonic : {Absent, Some("a;b")},
     forkUrl : OptStrs, forkBlockNumber : {Absent, Some(1)},
     extraArgs : ArgVectors]

\* the argument vector anvil_start assembles
anvilArgs(in) ==
    FlagNum("--port", in.port) \o FlagNum("--chain-id", in.chainId)
    \o FlagNum("--accounts", in.accounts) \o FlagStr("--balance", in.balance)
    \o FlagStr("--mnemonic", in.mnemonic) \o FlagStr("--fork-url", in.forkUrl)
    \o FlagNum("--fork-block-number", in.forkBlockNumber) \o in.extraArgs

\* The argument assembly and the spawn call of anvil_start, followed for the
\* vector alone (the registry side of the same handler is anvil_start above):
\* spawn launches the child, fails asynchronously or throws; a vector holding
\* a null byte always throws.
anvilSpawn(in, outcome) ==
    /\ host = "up" /\ cmd = NoCmd
    /\ HasNul(anvilArgs(in)) => outcome = "throw"
    /\ cmd' = [file |-> "anvil", input |-> in, args |-> anvilArgs(in),
               launched |-> (outcome = "ok"), argv |-> ChildArgv(anvilArgs(in))]
    /\ UNCHANGED <<anvilProcess, children, task, host, mainState, tickError, chiselVars>>

CastSendInputs ==
    [contractAddress : {"0xADDR"}, signature : {"f()"}, args : {<<>>, <<"a;b">>},
     privateKey : {Absent, Some(""), Some("0xKEY")}, from : {Absent, Some("0xFROM")},
     value : {Absent, Some("1")}, gasLimit : {Absent, Some("1")},
     gasPrice : {Absent, Some("1")}, rpcUrl : {Absent, Some("http://rpc")},
     extraArgs : {<<>>}]

\* process.env.FOUNDRY_PRIVATE_KEY as read when utils.ts is loaded: not set,
\* or set to a key
DefaultPrivateKeys == {Absent, Some("0xENV")}

\* const keyToUse = privateKey || DEFAULT_PRIVATE_KEY
keyToUse(in, DEFAULT_PRIVATE_KEY) ==
    IF TruthyStr(in.privateKey) THEN in.privateKey ELSE DEFAULT_PRIVATE_KEY

\* the vector cast_send assembles
castSendArgs(in, DEFAULT_PRIVATE_KEY) ==
    <<"send">> \o FlagStr("--rpc-url", in.rpcUrl)
    \o FlagStr("--private-key", keyToUse(in, DEFAULT_PRIVATE_KEY))
    \o FlagStr("--from", in.from) \o FlagStr("--value", in.value)
    \o FlagStr("--gas-limit", in.gasLimit) \o FlagStr("--gas-price", in.gasPrice)
    \o <<in.contractAddress, in.signature>> \o in.args \o in.extraArgs

\* cast_send: assemble the vector, await runCast on it, build the payload
\* from the result (were the awaited promise rejected, the handler would
\* throw and build none). The environment is read once per process; one
\* call is followed at a time, for either environment.
cast_send(in, DEFAULT_PRIVATE_KEY, o) ==
    /\ host = "up" /\ cmd = NoCmd
    /\ LET r == RunRecord("cast", <<"cast failed">>, castSendArgs(in, DEFAULT_PRIVATE_KEY), o)
       IN cmd' = [file |-> r.file, args |-> r.args, outcome |-> r.outcome,
                  launched |-> r.launched, argv |-> r.argv, result |-> r.result,
                  tool |-> "cast_send", input |-> in, env |-> DEFAULT_PRIVATE_KEY,
                  payload |-> IF r.result.settled = "resolved"
                              THEN [tool |-> "cast_send",
                                    success |-> r.result.value.success,
                                    args |-> r.args,
                                    stdout |-> r.result.value.stdout,
                                    stderr |-> r.result.value.stderr]
                              ELSE NoPayload]
    /\ UNCHANGED <<anvilProcess, children, task, host, mainState, tickError, chiselVars>>

\* String.prototype.trim() on captured text: leading and trailing whitespace
\* chunks are removed
RECURSIVE trimStart(_)
trimStart(text) ==
    IF text # <<>> /\ Head(text) = " " THEN trimStart(Tail(text)) ELSE text
RECURSIVE trimEnd(_)
trimEnd(text) ==
    IF text # <<>> /\ text[Len(text)] = " "
    THEN trimEnd(SubSeq(text, 1, Len(text) - 1)) ELSE text
trim(text) == trimEnd(trimStart(text))

NoKeyConfiguredMsg == "No private key configured. Set FOUNDRY_PRIVATE_KEY environment variable."

\* the vector cast_wallet_info hands to runCast
walletInfoArgs(DEFAULT_PRIVATE_KEY) ==
    <<"wallet", "address", "--private-key">>
    \o (IF DEFAULT_PRIVATE_KEY = Absent THEN <<"undefined">> ELSE DEFAULT_PRIVATE_KEY)

\* what cast_wallet_info does once it is past the key check: one runCast,
\* then the payload; address is null (Absent) unless the run succeeded
walletInfoRun(DEFAULT_PRIVATE_KEY, o) ==
    LET r == RunRecord("cast", <<"cast failed">>, walletInfoArgs(DEFAULT_PRIVATE_KEY), o)
    IN [file |-> r.file, args |-> r.args, outcome |-> r.outcome,
        launched |-> r.launched, argv |-> r.argv, result |-> r.result,
        tool |-> "cast_wallet_info", env |-> DEFAULT_PRIVATE_KEY, calls |-> 1,
        payload |-> IF r.result.settled = "resolved"
                    THEN [tool |-> "cast_wallet_info",
                          success |-> r.result.value.success,
                          privateKeyConfigured |-> TRUE,
                          address |-> IF r.result.value.success
                                      THEN Some(trim(r.result.value.stdout))
                                      ELSE Absent,
                          stdout |-> r.result.value.stdout,
                          stderr |-> r.result.value.stderr]
                    ELSE NoPayload]

\* cast_wallet_info without the `if (!keyToUse)` return
cast_wallet_info_unchecked(DEFAULT_PRIVATE_KEY, o) ==
    /\ host = "up" /\ cmd = NoCmd
    /\ cmd' = walletInfoRun(DEFAULT_PRIVATE_KEY, o)
    /\ UNCHANGED <<anvilProcess, children, task, host, mainState, tickError, chiselVars>>

\* cast_wallet_info: with no configured key the refusal payload and no call
\* of runCast (o is then not used); otherwise the run above
cast_wallet_info(DEFAULT_PRIVATE_KEY, o) ==
    /\ host = "up" /\ cmd = NoCmd
    /\ cmd' = IF ~TruthyStr(DEFAULT_PRIVATE_KEY)
              THEN [file |-> "(no call)", launched |-> FALSE,
                    tool |-> "cast_wallet_info", env |-> DEFAULT_PRIVATE_KEY, calls |-> 0,
                    payload |-> [tool |-> "cast_wallet_info", success |-> FALSE,
                                 error |-> NoKeyConfiguredMsg]]
              ELSE walletInfoRun(DEFAULT_PRIVATE_KEY, o)
    /\ UNCHANGED <<anvilProcess, children, task, host, mainState, tickError, chiselVars>>

NextCmd ==
    \/ cmd = NoCmd /\ \E key \in DefaultPrivateKeys \cup {Some("")} :
                          \E o \in ExecOutcomes(walletInfoArgs(key)) : cast_wallet_info(key, o)
    \/ cmd = NoCmd /\ \E in \in CastSendInputs, key \in DefaultPrivateKeys :
                          \E o \in ExecOutcomes(castSendArgs(in, key)) : cast_send(in, key, o)
    \/ cmd = NoCmd /\ \E in \in AnvilInputs, o \in SpawnOutcomes : anvilSpawn(in, o)
    \/ cmd = NoCmd /\ \E args \in ArgVectors : \E o \in ExecOutcomes(args) : runForge(args, o)
    \/ cmd = NoCmd /\ \E args \in ArgVectors : \E o \in ExecOutcomes(args) : runCast(args, o)
    \/ CmdReturn

SpecCmd == Init /\ [][NextCmd]_vars

----------------------------------------------------------------------------
(* Interactive Session Driver (tools/chisel.ts: runChiselWithScript) *)

\* script lines a caller may pass
Lines == {"l1", "!quit"}
\* the callers never pass an empty script (each pushes "!quit" last)
Scripts == UNION {[1..n -> Lines] : n \in 1..MaxLines}

\* `script.join(sep)`: the elements with sep between them; the stream is a
\* sequence of lines and "\n" separators
RECURSIVE Join(_, _)
Join(script, sep) ==
    IF script = <<>> THEN <<>>
    ELSE IF Len(script) = 1 THEN <<script[1]>>
    ELSE <<script[1], sep>> \o Join(Tail(script), sep)

\* the executor ends the input stream and writes afterwards
StdinOps_endFirst(script) ==
    <<[op |-> "end"], [op |-> "write", data |-> Join(script, "\n") \o <<"\n">>]>>

\* chisel.stdin.write(script.join('\n') + '\n'); chisel.stdin.end();
StdinOps(script) ==
    <<[op |-> "write", data |-> Join(script, "\n") \o <<"\n">>], [op |-> "end"]>>

\* Text the child writes: characters, "U+E9" being a character whose UTF-8
\* encoding takes two bytes (C3 A9); on the pipe the text is bytes.
Chars == {"a", "U+E9"}
OutTexts == UNION {[1..n -> Chars] : n \in 0..MaxOut}

RECURSIVE Utf8Encode(_)
Utf8Encode(text) ==
    IF text = <<>> THEN <<>>
    ELSE (IF Head(text) = "a" THEN <<"a">> ELSE <<"C3", "A9">>)
         \o Utf8Encode(Tail(text))

\* Buffer.prototype.toString(): UTF-8 decoding of one buffer on its own; a
\* byte that does not form a complete sequence inside the buffer becomes
\* U+FFFD
RECURSIVE BufferToString(_)
BufferToString(bytes) ==
    IF bytes = <<>> THEN <<>>
    ELSE IF Head(bytes) = "a" THEN <<"a">> \o BufferToString(Tail(bytes))
    ELSE IF Head(bytes) = "C3" /\ Len(bytes) >= 2 /\ bytes[2] = "A9"
    THEN <<"U+E9">> \o BufferToString(Tail(Tail(bytes)))
    ELSE <<"U+FFFD">> \o BufferToString(Tail(bytes))

\* the codes 'close' reports: 0, nonzero, null (ended by a signal)
CloseCodes == {"0", "1", "null"}
\* the code 'close' reports for a child that could not be launched
SpawnFailedCode == "-2"

NoValue == [kind |-> "none"]
\* new Error(`Chisel exited with code ${code}: ${stderr}`)
ExitedError(code, stderr) ==
    [kind |-> "error", message |-> <<"Chisel exited with code", code>> \o stderr]

\* a promise that every resolve / reject call settles anew
Settle_again(d, how, v) == [d EXCEPT !.settled = how, !.value = v]

\* resolve / reject settle the promise once; later calls change nothing
Settle(d, how, v) ==
    IF d.settled = "pending" THEN [d EXCEPT !.settled = how, !.value = v] ELSE d

\* The promise executor: spawn("chisel", []), the four listeners, the write
\* and the end, in one synchronous run. spawn launches the child ("ok"),
\* returns a ChildProcess whose 'error' is queued ("asyncError"), or throws,
\* which rejects the promise before anything else is done. out and err are
\* the texts the child goes on to write.
runChiselWithScript(script, outcome, out, err) ==
    /\ drv = NoDrv
    /\ outcome # "ok" => (out = <<>> /\ err = <<>>)
    /\ drv' = [st |-> "called", script |-> script, outcome |-> outcome, spawns |-> 1,
               child |-> (CASE outcome = "ok" -> "running"
                            [] outcome = "asyncError" -> "failed"
                            [] OTHER -> "none"),
               stdinOps |-> IF outcome = "throw" THEN <<>> ELSE StdinOps(script),
               outLeft |-> Utf8Encode(out), errLeft |-> Utf8Encode(err),
               wroteOut |-> <<>>, wroteErr |-> <<>>,
               stdout |-> <<>>, stderr |-> <<>>,
               errorQueued |-> (outcome = "asyncError"), code |-> "none",
               settled |-> IF outcome = "throw" THEN "rejected" ELSE "pending",
               value |-> IF outcome = "throw"
                         THEN [kind |-> "error", message |-> <<SpawnThrowMsg>>]
                         ELSE NoValue]
    /\ UNCHANGED <<serverVars, built, clock, saved, handlerVars>>

\* chisel.stdout.on('data'): the next n bytes arrive as one buffer
chisel_stdout_data(n) ==
    /\ drv.st = "called" /\ drv.child = "running"
    /\ n \in 1..Len(drv.outLeft)
    /\ drv' = [drv EXCEPT
                 !.stdout = @ \o BufferToString(SubSeq(drv.outLeft, 1, n)),
                 !.wroteOut = @ \o SubSeq(drv.outLeft, 1, n),
                 !.outLeft = SubSeq(@, n + 1, Len(@))]
    /\ UNCHANGED <<serverVars, built, clock, saved, handlerVars>>

\* chisel.stderr.on('data')
chisel_stderr_data(n) ==
    /\ drv.st = "called" /\ drv.child = "running"
    /\ n \in 1..Len(drv.errLeft)
    /\ drv' = [drv EXCEPT
                 !.stderr = @ \o BufferToString(SubSeq(drv.errLeft, 1, n)),
                 !.wroteErr = @ \o SubSeq(drv.errLeft, 1, n),
                 !.errLeft = SubSeq(@, n + 1, Len(@))]
    /\ UNCHANGED <<serverVars, built, clock, saved, handlerVars>>

\* chisel.on('close'): emitted once the child has ended and both output
\* streams have been read to their end; for a child that was not launched it
\* follows 'error'
chisel_close(code) ==
    /\ drv.st = "called"
    /\ \/ /\ drv.child = "running" /\ code \in CloseCodes
          /\ drv.outLeft = <<>> /\ drv.errLeft = <<>>
       \/ /\ drv.child = "failed" /\ ~drv.errorQueued /\ code = SpawnFailedCode
    /\ drv' = [(IF code = "0"
                THEN Settle(drv, "resolved",
                            [kind |-> "result", stdout |-> drv.stdout, stderr |-> drv.stderr])
                ELSE Settle(drv, "rejected", ExitedError(code, drv.stderr)))
               EXCEPT !.child = "closed", !.code = code]
    /\ UNCHANGED <<serverVars, built, clock, saved, handlerVars>>

\* chisel.on('error'): the child could not be launched
chisel_error ==
    /\ drv.st = "called" /\ drv.child = "failed" /\ drv.errorQueued
    /\ drv' = [Settle(drv, "rejected", [kind |-> "error", message |-> SpawnENOENTMsg])
               EXCEPT !.errorQueued = FALSE]
    /\ UNCHANGED <<serverVars, built, clock, saved, handlerVars>>

\* The child stops making progress without exiting (it ignores or never
\* reaches "!quit", or blocks on the network of a fork): nothing more is
\* written and no 'close' comes. The driver arms no timer.
ChiselHangs ==
    /\ drv.st = "called" /\ drv.child = "running"
    /\ drv' = [drv EXCEPT !.child = "hung"]
    /\ UNCHANGED <<serverVars, built, clock, saved, handlerVars>>

\* the tool handler awaiting the promise resumes
DrvReturn ==
    /\ drv.st = "called" /\ drv.settled # "pending" /\ drv.child \in {"closed", "none"}
    /\ drv' = NoDrv
    /\ UNCHANGED <<serverVars, built, clock, saved, handlerVars>>

NextDriver ==
    \/ drv = NoDrv /\ \E script \in Scripts, o \in SpawnOutcomes :
                        \E out \in OutTexts, err \in OutTexts :
                            runChiselWithScript(script, o, out, err)
    \/ \E n \in 1..(2 * MaxOut) : chisel_stdout_data(n)
    \/ \E n \in 1..(2 * MaxOut) : chisel_stderr_data(n)
    \/ \E code \in CloseCodes \cup {SpawnFailedCode} : chisel_close(code)
    \/ chisel_error
    \/ ChiselHangs
    \/ DrvReturn

SpecDriver == Init /\ [][NextDriver]_vars

\* every callback of the event loop that can run is eventually run
SpecDriverFair == SpecDriver /\ WF_vars(NextDriver)

----------------------------------------------------------------------------
(* Session Script Builder (tools/chisel.ts: the five chisel tools, up to    *)
(* their call of runChiselWithScript)                                       *)

\* A script line is the text pushed, as the parts of its template, together
\* with the role of the statement that pushed it: "load", "fork", "traces",
\* "primary" (the code, expression or fetch the tool is for), "inspect"
\* (dumps, per-variable inspection, !source, !export), "save", "quit".
Ln(role, text) == <<[role |-> role, text |-> text]>>
When(c, lines) == IF c THEN lines ELSE <<>>

\* the string array handed to the driver
ScriptText(script) == [i \in 1..Len(script) |-> script[i].text]

\* `${Date.now()}`
DateNowStr(now) == <<"1700000000000", "1700000000001", "1700000000002", "1700000000003">>[now + 1]

\* code.includes(sub) on the code strings the inputs are drawn from
Codes == {"1 + 1", "x = 1", "function f() {}", "contract C {}"}
includes(code, sub) ==
    <<code, sub>> \in {<<"x = 1", "=">>, <<"function f() {}", "function">>,
                       <<"contract C {}", "contract">>}

SessionIds == {Absent, Some(""), Some("s1")}
ForkUrls == {Absent, Some(""), Some("http://rpc")}

ExecuteCodeInputs ==
    [code : Codes, sessionId : SessionIds, saveSession : BOOLEAN,
     enableTraces : BOOLEAN, forkUrl : ForkUrls]

\* sessionId || `session_${Date.now()}`
executeCodeSaveId(in, now) ==
    IF TruthyStr(in.sessionId) THEN <<in.sessionId[1]>>
    ELSE <<"session_", DateNowStr(now)>>

\* chisel_execute_code with the save directive pushed before the code
executeCodeScript_saveFirst(in, now) ==
    When(TruthyStr(in.sessionId), Ln("load", <<"!load ", in.sessionId[1]>>))
    \o When(TruthyStr(in.forkUrl), Ln("fork", <<"!fork ", in.forkUrl[1]>>))
    \o When(in.enableTraces, Ln("traces", <<"!traces">>))
    \o When(in.saveSession, Ln("save", <<"!save ">> \o executeCodeSaveId(in, now)))
    \o Ln("primary", <<in.code>>)
    \o When(includes(in.code, "=") \/ includes(in.code, "function")
            \/ includes(in.code, "contract"),
            Ln("inspect", <<"!source">>))
    \o Ln("quit", <<"!quit">>)

\* chisel_execute_code: the pushes onto chiselScript, in program order
executeCodeScript(in, now) ==
    When(TruthyStr(in.sessionId), Ln("load", <<"!load ", in.sessionId[1]>>))
    \o When(TruthyStr(in.forkUrl), Ln("fork", <<"!fork ", in.forkUrl[1]>>))
    \o When(in.enableTraces, Ln("traces", <<"!traces">>))
    \o Ln("primary", <<in.code>>)
    \o When(includes(in.code, "=") \/ includes(in.code, "function")
            \/ includes(in.code, "contract"),
            Ln("inspect", <<"!source">>))
    \o When(in.saveSession, Ln("save", <<"!save ">> \o executeCodeSaveId(in, now)))
    \o Ln("quit", <<"!quit">>)

Variables == {"v"}
VariableLists == UNION {[1..n -> Variables] : n \in 0..MaxVars}

DebugExpressionInputs ==
    [code : {"1 + 1", "x = 1"}, debugLevel : {"basic", "memory", "stack", "full"},
     variables : VariableLists, forkUrl : ForkUrls]

\* for (const variable of variables) chiselScript.push(`!rawstack ${variable}`)
RECURSIVE RawStacks(_)
RawStacks(variables) ==
    IF variables = <<>> THEN <<>>
    ELSE Ln("inspect", <<"!rawstack ", Head(variables)>>) \o RawStacks(Tail(variables))

\* chisel_debug_expression with the dumps pushed before the code
debugExpressionScript_dumpFirst(in) ==
    When(TruthyStr(in.forkUrl), Ln("fork", <<"!fork ", in.forkUrl[1]>>))
    \o Ln("traces", <<"!traces">>)
    \o When(in.debugLevel \in {"memory", "full"}, Ln("inspect", <<"!memdump">>))
    \o When(in.debugLevel \in {"stack", "full"}, Ln("inspect", <<"!stackdump">>))
    \o Ln("primary", <<in.code>>)
    \o RawStacks(in.variables)
    \o Ln("inspect", <<"!source">>)
    \o Ln("quit", <<"!quit">>)

\* chisel_debug_expression
debugExpressionScript(in) ==
    When(TruthyStr(in.forkUrl), Ln("fork", <<"!fork ", in.forkUrl[1]>>))
    \o Ln("traces", <<"!traces">>)
    \o Ln("primary", <<in.code>>)
    \o When(in.debugLevel \in {"memory", "full"}, Ln("inspect", <<"!memdump">>))
    \o When(in.debugLevel \in {"stack", "full"}, Ln("inspect", <<"!stackdump">>))
    \o RawStacks(in.variables)
    \o Ln("inspect", <<"!source">>)
    \o Ln("quit", <<"!quit">>)

FetchInterfaceInputs ==
    [contractAddress : {"0xADDR"}, interfaceName : {"I", "J"},
     sessionId : SessionIds, saveSession : BOOLEAN,
     testCall : {Absent, Some(""), Some("i.f()")}]

\* sessionId || `interface_${interfaceName}_${Date.now()}`
fetchInterfaceSaveId(in, now) ==
    IF TruthyStr(in.sessionId) THEN <<in.sessionId[1]>>
    ELSE <<"interface_", in.interfaceName, "_", DateNowStr(now)>>

\* chisel_fetch_interface
fetchInterfaceScript(in, now) ==
    When(TruthyStr(in.sessionId), Ln("load", <<"!load ", in.sessionId[1]>>))
    \o Ln("primary", <<"!fetch ", in.contractAddress, " ", in.interfaceName>>)
    \o When(TruthyStr(in.testCall),
            Ln("fork", <<"!fork ", "https://rpc.ankr.com/eth">>)
            \o Ln("primary", <<in.testCall[1]>>))
    \o Ln("inspect", <<"!source">>)
    \o When(in.saveSession, Ln("save", <<"!save ">> \o fetchInterfaceSaveId(in, now)))
    \o Ln("quit", <<"!quit">>)

SessionActions == {"list", "load", "save", "view", "clear_cache", "export"}

SessionManagerInputs ==
    [action : SessionActions, sessionId : SessionIds,
     newSessionName : {Absent, Some(""), Some("n1")}]

\* a switch whose view case does not test the session id
sessionManagerRoute_viewUnchecked(in) ==
    IF in.action \in {"load", "export"} /\ ~TruthyStr(in.sessionId) THEN "throw"
    ELSE IF in.action \in {"list", "view", "clear_cache"} THEN "execFile"
    ELSE "driver"

\* the switch of chisel_session_manager: list, view and clear_cache run
\* `chisel <subcommand>` through execFileAsync; view, load and export throw
\* when no session id is given; load, save and export go through the driver
sessionManagerRoute(in) ==
    IF in.action \in {"view", "load", "export"} /\ ~TruthyStr(in.sessionId) THEN "throw"
    ELSE IF in.action \in {"list", "view", "clear_cache"} THEN "execFile"
    ELSE "driver"

\* newSessionName || sessionId || 'default'
sessionManagerSaveName(in) ==
    IF TruthyStr(in.newSessionName) THEN in.newSessionName[1]
    ELSE IF TruthyStr(in.sessionId) THEN in.sessionId[1]
    ELSE "default"

\* the three scripts of chisel_session_manager without their last element
sessionManagerScript_noQuit(in) ==
    CASE in.action = "load" ->
            Ln("load", <<"!load ", in.sessionId[1]>>) \o Ln("inspect", <<"!source">>)
      [] in.action = "save" ->
            Ln("save", <<"!save ", sessionManagerSaveName(in)>>)
      [] in.action = "export" ->
            Ln("load", <<"!load ", in.sessionId[1]>>) \o Ln("inspect", <<"!export">>)
      [] OTHER -> <<>>

\* loadScript, saveScript and exportScript of chisel_session_manager
sessionManagerScript(in) ==
    CASE in.action = "load" ->
            Ln("load", <<"!load ", in.sessionId[1]>>) \o Ln("inspect", <<"!source">>)
            \o Ln("quit", <<"!quit">>)
      [] in.action = "save" ->
            Ln("save", <<"!save ", sessionManagerSaveName(in)>>) \o Ln("quit", <<"!quit">>)
      [] in.action = "export" ->
            Ln("load", <<"!load ", in.sessionId[1]>>) \o Ln("inspect", <<"!export">>)
            \o Ln("quit", <<"!quit">>)
      [] OTHER -> <<>>

\* An optional array is truthy whenever it is given, empty or not.
OptLists(elems) == {Absent, Some(<<>>)} \cup {Some(l) : l \in UNION {[1..n -> elems] : n \in 1..MaxVars}}

ExperimentInputs ==
    [name : {"a-b", "a_b"}, description : {"d"},
     setup : {Absent, Some(<<>>), Some(<<"s">>)}, tests : {<<>>, <<"t">>},
     variables : OptLists(Variables), fork : {Absent, Some("http://rpc")},
     saveExperiment : BOOLEAN, enableDebugging : BOOLEAN]

\* name.replace(/[^a-zA-Z0-9]/g, '_') on the names the inputs are drawn from
Sanitize(name) == IF name \in {"a-b", "a_b"} THEN "a_b" ELSE name

\* `exp_${experiment.name.replace(...)}_${Date.now()}`
experimentId(in, now) == <<"exp_", Sanitize(in.name), "_", DateNowStr(now)>>

\* for (const line of lines) chiselScript.push(line)
RECURSIVE PushAll(_, _)
PushAll(role, lines) ==
    IF lines = <<>> THEN <<>>
    ELSE Ln(role, <<Head(lines)>>) \o PushAll(role, Tail(lines))

\* the loop over experiment.variables: the variable, then its raw stack slot
\* when debugging is enabled
RECURSIVE InspectAll(_, _)
InspectAll(variables, debugging) ==
    IF variables = <<>> THEN <<>>
    ELSE Ln("inspect", <<Head(variables)>>)
         \o When(debugging, Ln("inspect", <<"!rawstack ", Head(variables)>>))
         \o InspectAll(Tail(variables), debugging)

\* chisel_experiment_builder
experimentScript(in, now) ==
    When(TruthyStr(in.fork), Ln("fork", <<"!fork ", in.fork[1]>>))
    \o When(in.enableDebugging, Ln("traces", <<"!traces">>))
    \o When(in.setup # Absent,
            Ln("primary", <<"// === SETUP: ", in.description, " ===">>)
            \o PushAll("primary", IF in.setup = Absent THEN <<>> ELSE in.setup[1]))
    \o Ln("primary", <<"// === TESTS ===">>)
    \o PushAll("primary", in.tests)
    \o When(in.variables # Absent,
            Ln("inspect", <<"// === VARIABLE INSPECTION ===">>)
            \o InspectAll(IF in.variables = Absent THEN <<>> ELSE in.variables[1],
                          in.enableDebugging))
    \o Ln("inspect", <<"!source">>)
    \o When(in.saveExperiment, Ln("save", <<"!save ">> \o experimentId(in, now)))
    \o Ln("quit", <<"!quit">>)

\* What a chisel tool has done when it reaches its call of the driver:
\* route is "driver" (the script is passed to runChiselWithScript),
\* "execFile" (no script: a chisel subcommand is run) or "throw" (the handler
\* threw before the call); generated is the session identifier the handler
\* made up, if it did.
Built(tool, in, route, script, generated) ==
    [tool |-> tool, input |-> in, route |-> route, script |-> script,
     generated |-> generated, scriptPath |-> Absent]

\* a handler runs up to its first await in one step; an identifier that goes
\* to the driver in a save directive is recorded
Assemble(b) ==
    /\ built = NoBuilt
    /\ (b.route = "driver" /\ b.generated # Absent) => Len(saved) < MaxSaved
    /\ built' = b
    /\ saved' = IF b.route = "driver" /\ b.generated # Absent
                THEN Append(saved, b.generated[1])
                ELSE saved
    /\ UNCHANGED <<serverVars, drv, clock, handlerVars>>

\* path.join(PROJECT_ROOT, `.chisel_script_${Date.now()}.txt`)
scriptPathAt(now) == <<".chisel_script_", DateNowStr(now), ".txt">>

\* writeFileSync of the temporary script file either succeeds or throws; the
\* file it wrote is held in the handler's record until the handler returns
chisel_execute_code(in, fsOk) ==
    Assemble([Built("chisel_execute_code", in, IF fsOk THEN "driver" ELSE "throw",
                    executeCodeScript(in, clock),
                    IF in.saveSession /\ ~TruthyStr(in.sessionId)
                    THEN Some(executeCodeSaveId(in, clock)) ELSE Absent)
              EXCEPT !.scriptPath = IF fsOk THEN Some(scriptPathAt(clock)) ELSE Absent])

chisel_debug_expression(in) ==
    Assemble(Built("chisel_debug_expression", in, "driver",
                   debugExpressionScript(in), Absent))

chisel_fetch_interface(in) ==
    Assemble(Built("chisel_fetch_interface", in, "driver",
                   fetchInterfaceScript(in, clock),
                   IF in.saveSession /\ ~TruthyStr(in.sessionId)
                   THEN Some(fetchInterfaceSaveId(in, clock)) ELSE Absent))

chisel_session_manager(in) ==
    Assemble(Built("chisel_session_manager", in, sessionManagerRoute(in),
                   IF sessionManagerRoute(in) = "driver"
                   THEN sessionManagerScript(in) ELSE <<>>,
                   Absent))

chisel_experiment_builder(in) ==
    Assemble(Built("chisel_experiment_builder", in, "driver",
                   experimentScript(in, clock),
                   IF in.saveExperiment THEN Some(experimentId(in, clock)) ELSE Absent))

\* the handler is suspended at its await (the driver's run is SpecDriver)
Await ==
    /\ built # NoBuilt
    /\ built' = NoBuilt
    /\ UNCHANGED <<serverVars, drv, clock, saved, handlerVars>>

\* a millisecond passes
Tick ==
    /\ clock < MaxClock
    /\ clock' = clock + 1
    /\ UNCHANGED <<serverVars, drv, built, saved, handlerVars>>

NextScript ==
    \/ built = NoBuilt /\ \E in \in ExecuteCodeInputs, fsOk \in BOOLEAN :
                               chisel_execute_code(in, fsOk)
    \/ built = NoBuilt /\ \E in \in DebugExpressionInputs : chisel_debug_expression(in)
    \/ built = NoBuilt /\ \E in \in FetchInterfaceInputs : chisel_fetch_interface(in)
    \/ built = NoBuilt /\ \E in \in SessionManagerInputs : chisel_session_manager(in)
    \/ built = NoBuilt /\ \E in \in ExperimentInputs : chisel_experiment_builder(in)
    \/ Await
    \/ Tick

SpecScript == Init /\ [][NextScript]_vars

-----------------------------------------------------------------------------
(* The chisel tool handlers from the request to the returned payload *)

\* the message of the Error writeFileSync throws
WriteFailedMsg == "EACCES: permission denied, open"
\* new Error(`Session ID required for ${action} action`)
SessionIdRequiredMsg(action) == <<"Session ID required for ", action, " action">>
\* what execFileAsync("chisel", [...]) resolves with, or rejects with
ExecFileResult == [kind |-> "result", stdout |-> <<"(chisel output)">>, stderr |-> <<>>]
ExecFileError == [kind |-> "error", message |-> <<"Command failed: chisel">>]

\* the value of a request parameter as the payload carries it
Reported(opt) == IF opt = Absent THEN Absent ELSE Some(<<opt[1]>>)

\* chisel_execute_code: the payload built after the await; `now` is the
\* Date.now() of that moment
executeCodePayload(in, result, now) ==
    [tool |-> "chisel_execute_code", projectRoot |-> "PROJECT_ROOT", success |-> TRUE,
     code |-> in.code,
     sessionId |-> IF in.saveSession THEN Some(executeCodeSaveId(in, now))
                   ELSE Reported(in.sessionId),
     stdout |-> result.stdout, stderr |-> result.stderr]

\* err.stderr?.toString?.() ?? "": the Errors of the driver carry no stderr
executeCodeCatch(err) ==
    [tool |-> "chisel_execute_code", projectRoot |-> "PROJECT_ROOT", success |-> FALSE,
     error |-> err.message, stderr |-> <<>>]

fetchInterfacePayload(in, result, now) ==
    [tool |-> "chisel_fetch_interface", projectRoot |-> "PROJECT_ROOT", success |-> TRUE,
     contractAddress |-> in.contractAddress, interfaceName |-> in.interfaceName,
     testCall |-> in.testCall,
     sessionId |-> IF in.saveSession THEN Some(fetchInterfaceSaveId(in, now))
                   ELSE Reported(in.sessionId),
     stdout |-> result.stdout, stderr |-> result.stderr]

fetchInterfaceCatch(err) ==
    [tool |-> "chisel_fetch_interface", success |-> FALSE, error |-> err.message]

experimentPayload(in, result, now) ==
    [tool |-> "chisel_experiment_builder", projectRoot |-> "PROJECT_ROOT", success |-> TRUE,
     experiment |-> in,
     sessionId |-> IF in.saveExperiment THEN Some(experimentId(in, now)) ELSE Absent,
     stdout |-> result.stdout, stderr |-> result.stderr]

experimentCatch(err) ==
    [tool |-> "chisel_experiment_builder", success |-> FALSE, error |-> err.message]

sessionManagerPayload(in, result) ==
    [tool |-> "chisel_session_manager", projectRoot |-> "PROJECT_ROOT", success |-> TRUE,
     action |-> in.action, sessionId |-> Reported(in.sessionId),
     stdout |-> result.stdout, stderr |-> result.stderr]

sessionManagerCatch(in, err) ==
    [tool |-> "chisel_session_manager", success |-> FALSE, action |-> in.action,
     error |-> err.message]

\* the Error a handler throws before it calls anything
Thrown(b) ==
    [kind |-> "error",
     message |-> IF b.tool = "chisel_session_manager"
                 THEN SessionIdRequiredMsg(b.input.action)
                 ELSE WriteFailedMsg]

\* what the awaited call hands back to the handler: a result, or the Error
\* its catch block receives
Awaited(execOk) ==
    CASE built.route = "throw" -> Thrown(built)
      [] built.route = "execFile" -> (IF execOk THEN ExecFileResult ELSE ExecFileError)
      [] OTHER -> drv.value

Payload(b, got, now) ==
    CASE b.tool = "chisel_execute_code" ->
             (IF got.kind = "result" THEN executeCodePayload(b.input, got, now)
              ELSE executeCodeCatch(got))
      [] b.tool = "chisel_fetch_interface" ->
             (IF got.kind = "result" THEN fetchInterfacePayload(b.input, got, now)
              ELSE fetchInterfaceCatch(got))
      [] b.tool = "chisel_experiment_builder" ->
             (IF got.kind = "result" THEN experimentPayload(b.input, got, now)
              ELSE experimentCatch(got))
      [] OTHER ->
             (IF got.kind = "result" THEN sessionManagerPayload(b.input, got)
              ELSE sessionManagerCatch(b.input, got))

\* try { require('fs').unlinkSync(scriptPath) } catch (e) {}: the module is
\* an ES module (it is loaded through `import`), `require` is not defined in
\* it, the ReferenceError is swallowed and nothing is unlinked. The statement
\* stands after the await inside the try block, so a rejected await skips it.
LeftBehind(b) == IF b.scriptPath = Absent THEN {} ELSE {b.scriptPath[1]}

\* the handler resumes after its await (or lands in its catch block) and
\* returns its payload
HandlerReturn(execOk) ==
    /\ built # NoBuilt
    /\ built.route = "driver" => (drv # NoDrv /\ drv.settled # "pending")
    /\ built.route # "execFile" => execOk
    /\ resp' = Append(resp, [tool |-> built.tool, input |-> built.input,
                             generated |-> built.generated,
                             scriptPath |-> built.scriptPath,
                             spawns |-> IF drv = NoDrv THEN 0 ELSE drv.spawns,
                             delivered |-> Awaited(execOk),
                             payload |-> Payload(built, Awaited(execOk), clock)])
    /\ files' = files \cup LeftBehind(built)
    /\ built' = NoBuilt
    /\ UNCHANGED <<serverVars, drv, clock, saved, gas>>

\* the response has gone to the client
HandlerAck ==
    /\ resp # <<>> /\ drv = NoDrv
    /\ resp' = <<>>
    /\ UNCHANGED <<serverVars, drv, built, clock, saved, files, gas>>

\* the requests followed to their response
HandlerExecInputs ==
    {in \in ExecuteCodeInputs : in.code = "1 + 1" /\ ~in.enableTraces /\ in.forkUrl = Absent}
HandlerFetchInputs ==
    {in \in FetchInterfaceInputs : in.interfaceName = "I" /\ in.testCall = Absent}
HandlerExperimentInputs ==
    {in \in ExperimentInputs : /\ in.name = "a-b" /\ in.setup = Absent /\ in.tests = <<>>
                               /\ in.variables = Absent /\ in.fork = Absent
                               /\ ~in.enableDebugging}
HandlerSessionInputs ==
    {in \in SessionManagerInputs : in.action # "save" => in.newSessionName = Absent}

HandlerIdle == built = NoBuilt /\ drv = NoDrv /\ resp = <<>>

NextHandler ==
    \/ HandlerIdle /\ \E in \in HandlerExecInputs, fsOk \in BOOLEAN :
                          chisel_execute_code(in, fsOk)
    \/ HandlerIdle /\ \E in \in HandlerFetchInputs : chisel_fetch_interface(in)
    \/ HandlerIdle /\ \E in \in HandlerExperimentInputs : chisel_experiment_builder(in)
    \/ HandlerIdle /\ \E in \in HandlerSessionInputs : chisel_session_manager(in)
    \/ /\ built # NoBuilt /\ built.route = "driver"
       /\ \E o \in SpawnOutcomes :
              runChiselWithScript(ScriptText(built.script), o,
                                  IF o = "ok" THEN <<"a">> ELSE <<>>, <<>>)
    \/ chisel_stdout_data(1)
    \/ \E code \in CloseCodes \cup {SpawnFailedCode} : chisel_close(code)
    \/ chisel_error
    \/ ChiselHangs
    \/ \E execOk \in BOOLEAN : HandlerReturn(execOk)
    \/ built = NoBuilt /\ DrvReturn
    \/ HandlerAck
    \/ Tick

SpecHandler == Init /\ [][NextHandler]_vars

-----------------------------------------------------------------------------
(* The registry tools interleaved with the tools of the other modules *)

\* a forge / cast child that exits 0 without output
QuietExit == [kind |-> "exit0", stdout |-> <<>>, stderr |-> <<>>]

\* One request slot of the registry tools and the host's events, with forge,
\* cast (and gas, which goes through runForge) and chisel invocations taking
\* their steps in between.
NextFrame ==
    \/ \E tool \in AnvilTools : Issue(1, tool)
    \/ Ack(1)
    \/ \E o \in SpawnOutcomes : anvil_start(1, o)
    \/ anvil_stop(1)
    \/ anvil_status(1)
    \/ Connect
    \/ MainCatch
    \/ SIGTERM
    \/ SIGINT
    \/ EmitSpawnError
    \/ \E h \in 1..MaxSpawns : ProcExit(h)
    \/ runForge(<<"build">>, QuietExit)
    \/ runCast(<<"build">>, QuietExit)
    \/ CmdReturn
    \/ runChiselWithScript(<<"!quit">>, "ok", <<>>, <<>>)
    \/ chisel_close("0")
    \/ DrvReturn

SpecFrame == Init /\ [][NextFrame]_vars

-----------------------------------------------------------------------------
(* gas_regression_test (tools/gas.ts) *)

\* most lines in the output of `forge snapshot --diff`
MaxDiffLines == 2

\* The percentages a diff line can carry, as text, and parseFloat of each in
\* thousandths of a percent.
PctTexts == {"5.000", "10.000"}
parseFloat(txt) == IF txt = "5.000" THEN 5000 ELSE 10000
\* the gas figure of a diff line, and parseInt of it
GasTexts == {"100"}
parseInt(txt) == 100

\* A line of the diff is a sequence of pieces of text. A changed test is
\* printed with its gas change and the change in percent; an increase is
\* printed with a plus sign or without a sign.
PlusLine(pct) == <<"testA()", " (gas: ", "+", "100", " (", "+", pct, "%))">>
PlainLine(pct) == <<"testA()", " (gas: ", "100", " (", pct, "%))">>
MinusLine(pct) == <<"testA()", " (gas: ", "-", "100", " (", "-", pct, "%))">>
SummaryLine == <<"Overall gas change: ", "+", "100", " (", "+", "10.000", "%)">>

DiffLines ==
    {PlusLine(pct) : pct \in PctTexts} \cup {PlainLine(pct) : pct \in PctTexts}
    \cup {MinusLine("10.000"), SummaryLine}

\* the text the child writes: every line followed by "\n"
RECURSIVE Unlines(_)
Unlines(ls) == IF ls = <<>> THEN <<>> ELSE Head(ls) \o <<"\n">> \o Unlines(Tail(ls))

DiffTexts == {Unlines(ls) : ls \in UNION {[1..n -> DiffLines] : n \in 0..MaxDiffLines}}

\* stdout.split('\n'): the pieces between the separators; cur is the line
\* being collected
RECURSIVE SplitLines(_, _)
SplitLines(text, cur) ==
    IF text = <<>> THEN <<cur>>
    ELSE IF Head(text) = "\n" THEN <<cur>> \o SplitLines(Tail(text), <<>>)
    ELSE SplitLines(Tail(text), Append(cur, Head(text)))

\* line.includes('(gas:')
includesGas(line) == \E i \in 1..Len(line) : line[i] = " (gas: "
\* line.includes('(+')
includesParenPlus(line) ==
    \E i \in 1..Len(line) : line[i] = " (" /\ i < Len(line) /\ line[i + 1] = "+"

\* the regular expression /\(gas:\s*\+(\d+)\s*\(\+([0-9.]+)%\)\)/ matches
\* at piece i
MatchesAt(line, i) ==
    /\ i + 6 <= Len(line)
    /\ line[i] = " (gas: " /\ line[i + 1] = "+" /\ line[i + 2] \in GasTexts
    /\ line[i + 3] = " (" /\ line[i + 4] = "+" /\ line[i + 5] \in PctTexts
    /\ line[i + 6] = "%))"

\* line.match(...): the two groups of the first match, or null
match(line) ==
    IF \E i \in 1..Len(line) : MatchesAt(line, i)
    THEN LET i == CHOOSE k \in 1..Len(line) :
                      MatchesAt(line, k) /\ \A j \in 1..(k - 1) : ~MatchesAt(line, j)
         IN  Some(<<line[i + 2], line[i + 5]>>)
    ELSE Absent

\* line.split(':')[0]
beforeColon(line) ==
    IF \E i \in 1..Len(line) : line[i] = " (gas: "
    THEN <<line[1], " (gas">>
    ELSE <<"Overall gas change">>

\* the loop over the lines; threshold is in percent
RECURSIVE findRegressions(_, _)
findRegressions(lines, threshold) ==
    IF lines = <<>> THEN <<>>
    ELSE (IF /\ includesGas(Head(lines)) /\ includesParenPlus(Head(lines))
             /\ match(Head(lines)) # Absent
             /\ parseFloat(match(Head(lines))[1][2]) > threshold * 1000
          THEN <<[test |-> beforeColon(Head(lines)),
                  gasIncrease |-> parseInt(match(Head(lines))[1][1]),
                  percentIncrease |-> parseFloat(match(Head(lines))[1][2])]>>
          ELSE <<>>)
         \o findRegressions(Tail(lines), threshold)

GasRegressionInputs ==
    [baselineSnapshot : {Absent, Some("base")}, threshold : {Absent, Some(0), Some(10)},
     failOnRegression : {Absent, Some(TRUE), Some(FALSE)}]

\* the defaults of the destructured parameters: a default applies when the
\* field is undefined
baselineOf(in) == IF in.baselineSnapshot = Absent THEN ".gas-snapshot"
                  ELSE in.baselineSnapshot[1]
thresholdOf(in) == IF in.threshold = Absent THEN 5 ELSE in.threshold[1]
failOnRegressionOf(in) == IF in.failOnRegression = Absent THEN FALSE
                          ELSE in.failOnRegression[1]

snapshotArgs == <<"snapshot", "--snap", ".gas-snapshot-current">>
diffArgs(in) == <<"snapshot", "--diff", baselineOf(in)>>

\* what the two children can do: the snapshot run writes nothing the handler
\* reads; the diff run writes the diff
SnapshotOutcomes ==
    {[kind |-> k, stdout |-> <<>>, stderr |-> <<>>] : k \in {"exit0", "nonzero", "launchFail"}}
DiffOutcomes ==
    [kind : {"exit0", "nonzero"}, stdout : DiffTexts, stderr : {<<>>}]
    \cup {[kind |-> "launchFail", stdout |-> <<>>, stderr |-> <<>>]}

\* the payload returned when the snapshot run failed
snapshotFailedPayload(result) ==
    [tool |-> "gas_regression_test", success |-> FALSE,
     error |-> "Failed to generate current snapshot", stderr |-> result.stderr]

\* `if (diffResult.stdout)`: an empty output is not analysed
regressionsOf(in, diffResult) ==
    IF diffResult.stdout = <<>> THEN <<>>
    ELSE findRegressions(SplitLines(diffResult.stdout, <<>>), thresholdOf(in))

regressionPayload(in, diffResult) ==
    [tool |-> "gas_regression_test", projectRoot |-> "PROJECT_ROOT",
     success |-> IF failOnRegressionOf(in) THEN ~(Len(regressionsOf(in, diffResult)) > 0)
                 ELSE TRUE,
     threshold |-> thresholdOf(in),
     regressions |-> regressionsOf(in, diffResult),
     hasRegressions |-> Len(regressionsOf(in, diffResult)) > 0,
     totalRegressions |-> Len(regressionsOf(in, diffResult)),
     diffOutput |-> diffResult.stdout]

\* the handler is entered; its first statement calls runForge(snapshotArgs)
gas_regression_test(in) ==
    /\ gas = NoGas /\ cmd = NoCmd /\ host = "up"
    /\ gas' = [phase |-> "snapshot", input |-> in, calls |-> <<>>,
               snapshot |-> Absent, diff |-> Absent, payload |-> NoPayload]
    /\ UNCHANGED <<serverVars, drv, built, clock, saved, files, resp>>

\* the handler resumes with snapshotResult
gas_afterSnapshot ==
    /\ gas.phase = "snapshot" /\ cmd # NoCmd
    /\ gas' = IF ~cmd.result.value.success
              THEN [gas EXCEPT !.phase = "returned",
                               !.calls = Append(@, cmd.args),
                               !.snapshot = Some(cmd.outcome),
                               !.payload = snapshotFailedPayload(cmd.result.value)]
              ELSE [gas EXCEPT !.phase = "diff", !.calls = Append(@, cmd.args),
                               !.snapshot = Some(cmd.outcome)]
    /\ cmd' = NoCmd
    /\ UNCHANGED <<anvilProcess, children, task, host, mainState, tickError,
                   drv, built, clock, saved, files, resp>>

\* the handler resumes with diffResult and returns
gas_afterDiff ==
    /\ gas.phase = "diff" /\ cmd # NoCmd
    /\ gas' = [gas EXCEPT !.phase = "returned",
                          !.calls = Append(@, cmd.args),
                          !.diff = Some(cmd.outcome),
                          !.payload = regressionPayload(gas.input, cmd.result.value)]
    /\ cmd' = NoCmd
    /\ UNCHANGED <<anvilProcess, children, task, host, mainState, tickError,
                   drv, built, clock, saved, files, resp>>

\* the response has gone to the client
GasAck ==
    /\ gas.phase = "returned"
    /\ gas' = NoGas
    /\ UNCHANGED <<serverVars, drv, built, clock, saved, files, resp>>

NextGas ==
    \/ \E in \in GasRegressionInputs : gas_regression_test(in)
    \/ gas.phase = "snapshot" /\ \E o \in SnapshotOutcomes : runForge(snapshotArgs, o)
    \/ gas_afterSnapshot
    \/ gas.phase = "diff" /\ \E o \in DiffOutcomes : runForge(diffArgs(gas.input), o)
    \/ gas_afterDiff
    \/ GasAck

SpecGas == Init /\ [][NextGas]_vars

----------------------------------------------------------------------------
(* Claims about the registry and the host, checked under Spec *)

\* the handler of task t ran `tool` to completion in this step
Ran(t, tool) ==
    task[t].st = "issued" /\ task[t].tool = tool /\ task'[t].st = "done"

Returned(t, tool) == task[t].st = "done" /\ task[t].payload.tool = tool

IsSuccess(p) == "success" \in DOMAIN p /\ p.success = TRUE

AlreadyRunningPayload ==
    [tool |-> "anvil_start", success |-> FALSE, error |-> AlreadyRunningMsg]
NotRunningPayload ==
    [tool |-> "anvil_stop", success |-> FALSE, error |-> NotRunningMsg]

\* C1: an anvil_start that runs while the slot holds the handle of an earlier
\* successful start (no stop or cleanup since) returns the already-running
\* failure payload, spawns nothing, signals nothing and leaves the slot holding
\* the same handle.
C1_SecondStartRefused ==
    [][\A t \in Tasks :
         (Ran(t, "anvil_start") /\ anvilProcess # NULL)
         => /\ task'[t].payload = AlreadyRunningPayload
            /\ children' = children
            /\ anvilProcess' = anvilProcess]_vars

\* a second start has been refused while the first start's process is held
C1_Witness ==
    \E t \in Tasks :
        /\ Returned(t, "anvil_start")
        /\ task[t].payload = AlreadyRunningPayload
        /\ anvilProcess # NULL
        /\ children[anvilProcess].st = "running"
        /\ Len(children) = 1

\* C2: an anvil_stop that runs while the slot is empty returns the not-running
\* failure payload, calls kill on nothing and leaves the registry unchanged.
C2_StopWhenStopped ==
    [][\A t \in Tasks :
         (Ran(t, "anvil_stop") /\ anvilProcess = NULL)
         => /\ task'[t].payload = NotRunningPayload
            /\ children' = children
            /\ anvilProcess' = NULL]_vars

\* a stop has been refused after an earlier stop emptied the slot
C2_Witness ==
    \E t \in Tasks :
        /\ Returned(t, "anvil_stop")
        /\ task[t].payload = NotRunningPayload
        /\ anvilProcess = NULL
        /\ Len(children) = 1 /\ children[1].killCalls = 1

\* C3: from every reachable registry state, cleanupAnvil leaves the registry
\* Stopped, a second cleanupAnvil right after it changes nothing (no further
\* kill call on any handle), and cleanupAnvil on an empty slot changes nothing.
C3_CleanupIdempotent ==
    LET once == cleanupAnvilFn(Registry)
        twice == cleanupAnvilFn(once)
    IN /\ once.ap = NULL
       /\ twice = once
       /\ anvilProcess = NULL => once = Registry
       /\ \A h \in 1..Len(children) : twice.ch[h].killCalls <= 1

\* the host has exited through a signal handler whose cleanupAnvil signalled
\* a handle that no anvil_stop had released
C3_Witness ==
    \E t \in Tasks :
        /\ Returned(t, "anvil_start") /\ IsSuccess(task[t].payload) /\ task[t].conc
        /\ host = "exit(0)"
        /\ anvilProcess = NULL
        /\ children[task[t].payload.pid].killCalls = 1

\* anvil_start invocations issued while the registry was Stopped, with no
\* anvil_stop and no cleanupAnvil executed since
IssuedWhileStopped ==
    {t \in Tasks : /\ task[t].conc /\ task[t].tool = "anvil_start"
                   /\ host \notin {"exit(0)", "exit(1)"}}

\* those of them that have returned, when two or more were issued together
ConcurrentStarts ==
    IF Cardinality(IssuedWhileStopped) >= 2
    THEN {t \in IssuedWhileStopped : task[t].st = "done"}
    ELSE {}

SpawnThrowPayload ==
    [tool |-> "anvil_start", success |-> FALSE, error |-> SpawnThrowMsg]

\* handles the registry created and has not yet called kill on
Unreleased == {h \in 1..Len(children) : children[h].killCalls = 0}

\* C4 as stated: among two or more anvil_start invocations issued concurrently
\* while the registry is Stopped, at most one spawns and becomes the held
\* handle, and every other one returns the already-running failure.
C4_AsStated ==
    /\ Cardinality({t \in ConcurrentStarts : IsSuccess(task[t].payload)}) <= 1
    /\ \A t \in ConcurrentStarts :
          ~IsSuccess(task[t].payload) => task[t].payload = AlreadyRunningPayload

\* C4 (amended): among two or more anvil_start invocations issued concurrently
\* while the registry is Stopped, at most one spawns and becomes the held
\* handle (the registry never has two handles it has not released); every other
\* one spawns nothing and returns a failure payload: the already-running
\* failure, or the spawn failure when its own spawn call threw.
C4_AtMostOneSpawn ==
    /\ Cardinality({t \in ConcurrentStarts : IsSuccess(task[t].payload)}) <= 1
    /\ Cardinality(Unreleased) <= 1
    /\ \A t \in ConcurrentStarts :
          IF IsSuccess(task[t].payload)
          THEN /\ anvilProcess # NULL
               /\ Unreleased = {anvilProcess}
               /\ children[anvilProcess].pid = task[t].payload.pid
          ELSE task[t].payload \in {AlreadyRunningPayload, SpawnThrowPayload}

\* two starts were in flight together while Stopped: one spawned, one was refused
C4_Witness ==
    \E t, u \in ConcurrentStarts :
        /\ t # u
        /\ IsSuccess(task[t].payload)
        /\ task[u].payload = AlreadyRunningPayload
        /\ Len(children) = 1

\* the host has exited through one of its handlers
ExitedByHandler == host \in {"exit(0)", "exit(1)"}

\* C5: once the host has exited through the SIGTERM, SIGINT or main().catch
\* handler, the slot is empty, kill has been called on every handle the
\* registry created, and no simulator process is left running unsignalled.
C5_CleanupBeforeExit ==
    ExitedByHandler
    => /\ anvilProcess = NULL
       /\ \A h \in 1..Len(children) :
             children[h].killCalls >= 1 /\ children[h].st # "running"

\* the host exited on a signal while a live simulator was held: the handler
\* delivered SIGTERM to it
C5_Witness ==
    \E t \in Tasks :
        /\ Returned(t, "anvil_start") /\ IsSuccess(task[t].payload) /\ task[t].conc
        /\ host = "exit(0)"
        /\ children[task[t].payload.pid].st = "signalled"
        /\ children[task[t].payload.pid].sigterms = 1

\* C6 as stated: a simulator that cannot be launched is reported as a
\* success=false payload, is never an uncaught exception in the host, and leaves
\* no handle in the slot.
C6_SpawnFailureIsAValue ==
    /\ host # "uncaught"
    /\ \A h \in 1..Len(children) : children[h].st = "failed" => anvilProcess # h
    /\ \A t \in Tasks :
          (Returned(t, "anvil_start") /\ IsSuccess(task[t].payload))
          => task[t].payload.pid # Undefined

\* C22: every tool invocation returns a structured payload, and no failure
\* of the external process escapes the handler as an uncaught exception or an
\* unhandled 'error' event in the host process.
C22_NoFailureEscapes ==
    /\ host # "uncaught"
    /\ \A t \in Tasks : task[t].st = "done" => task[t].payload # NoPayload

\* C23: every payload a tool returns, on the success path, on every failure
\* path, for status queries and for refusals, contains a success field.
C23_PayloadHasSuccess ==
    \A t \in Tasks :
        task[t].st = "done" => "success" \in DOMAIN task[t].payload

\* C7 as stated: once the held process has terminated, anvil_status does not
\* report running and anvil_start is not refused as already running.
C7_RunningOnlyWhileLive ==
    [][\A t \in Tasks :
         (anvilProcess # NULL /\ ~Alive(children, anvilProcess))
         => /\ Ran(t, "anvil_status") => task'[t].payload.isRunning # "true"
            /\ Ran(t, "anvil_start") => task'[t].payload # AlreadyRunningPayload]_vars

\* C8 as stated: anvil_status changes neither the slot nor any process, reports
\* running exactly when the slot holds a handle whose process is live, and
\* reports that handle's pid when running and no pid otherwise.
C8_StatusPureRead ==
    [][\A t \in Tasks :
         Ran(t, "anvil_status")
         => /\ anvilProcess' = anvilProcess /\ children' = children
            /\ (task'[t].payload.isRunning = "true")
               <=> (anvilProcess # NULL /\ Alive(children, anvilProcess))
            /\ task'[t].payload.pid =
                  IF anvilProcess # NULL /\ Alive(children, anvilProcess)
                  THEN children[anvilProcess].pid ELSE NULL]_vars

\* The part of C8 the code does satisfy: anvil_status changes neither the slot
\* nor any process, and what it reports is the registry's own test (a handle is
\* held and its killed flag is false).
C8_StatusFrame ==
    [][\A t \in Tasks :
         Ran(t, "anvil_status")
         => /\ anvilProcess' = anvilProcess /\ children' = children
            /\ (task'[t].payload.isRunning = "true")
               <=> HeldNotKilled(anvilProcess, children)]_vars

\* pids of the processes the registry has launched so far
LaunchedPids == {children[h].pid : h \in 1..Len(children)}

\* the spawn call of this step launched a process
Launched ==
    /\ Len(children') = Len(children) + 1
    /\ children'[Len(children')].st = "running"

\* the slot is filled only by a successful anvil_start, with a new handle
OccupiedOnlyByStart ==
    (anvilProcess' # anvilProcess /\ anvilProcess' # NULL)
    => /\ anvilProcess = NULL
       /\ anvilProcess' = Len(children) + 1
       /\ \E t \in Tasks : Ran(t, "anvil_start") /\ IsSuccess(task'[t].payload)

\* the slot is emptied only by anvil_stop or cleanupAnvil, after one kill call
\* on the held handle
EmptiedOnlyByStopOrCleanup ==
    (anvilProcess # NULL /\ anvilProcess' = NULL)
    => /\ \/ \E t \in Tasks : Ran(t, "anvil_stop") /\ IsSuccess(task'[t].payload)
          \/ (host = "up" /\ ExitedByHandler')
       /\ children' = kill(children, anvilProcess)
       /\ children'[anvilProcess].killCalls = children[anvilProcess].killCalls + 1

AliveChildren == {h \in 1..Len(children) : Alive(children, h)}

\* C27 as stated: at no point are two simulator processes spawned by the
\* registry alive at the same time; when anvil_stop is followed at once by a
\* successful anvil_start, the process held before has terminated before the
\* new one is spawned. anvil_stop sends SIGTERM and clears the slot without
\* waiting for the process to exit.
C27_OneSimulatorAlive == Cardinality(AliveChildren) <= 1

\* anvil_stop signalled the first process, which has not exited yet, and an
\* anvil_start has launched the second
C27_StopThenStartOverlap ==
    /\ Len(children) = 2
    /\ children[1].st = "signalled" /\ children[1].killCalls = 1
    /\ children[2].st = "running" /\ anvilProcess = 2

----------------------------------------------------------------------------
(* Claims about the Command Runner, checked under SpecCmd *)

\* C10: runForge and runCast always settle by resolving with an
\* ExecutionResult: success is true exactly when the child exited with code 0,
\* and then stdout and stderr are the captured streams unchanged; a nonzero
\* exit, a signal, a launch failure and a synchronous throw all give
\* success=false.
C10_RunnerNeverThrows ==
    IsRunnerCall
    => /\ cmd.result.settled = "resolved"
       /\ DOMAIN cmd.result.value = {"success", "stdout", "stderr"}
       /\ cmd.result.value.success = (cmd.outcome.kind = "exit0")
       /\ cmd.outcome.kind = "exit0"
          => /\ cmd.result.value.stdout = cmd.outcome.stdout
             /\ cmd.result.value.stderr = cmd.outcome.stderr

\* a command that could not be launched came back as a success=false value
C10_Witness ==
    /\ IsRunnerCall
    /\ cmd.outcome.kind = "launchFail"
    /\ cmd.result.settled = "resolved"
    /\ cmd.result.value.success = FALSE

\* C11: on a failed runForge / runCast call the returned stderr is the
\* child's error-stream text when the child wrote one, and otherwise a
\* non-empty synthesized description of the failure; in particular it is
\* non-empty when the executable could not be launched.
C11_FailureStderrDescribes ==
    (IsRunnerCall /\ ~cmd.result.value.success)
    => /\ (cmd.launched /\ cmd.outcome.kind # "launchFail" /\ cmd.outcome.stderr # <<>>)
          => cmd.result.value.stderr = cmd.outcome.stderr
       /\ cmd.result.value.stderr # <<>>

\* C12: every argument vector handed to the Command Runner, and the one
\* handed to the simulator spawn, reaches the launched child as its argv
\* element for element, in order and unchanged: no shell splits or rewrites
\* an element that holds shell metacharacters.
C12_ArgvVerbatim ==
    (cmd # NoCmd /\ cmd.launched) => cmd.argv = cmd.args

\* a child was launched with an element holding `;` followed by another
\* element, by the Command Runner
C12_Witness ==
    /\ IsRunnerCall /\ cmd.launched
    /\ Len(cmd.args) = 2 /\ cmd.args[1] = "a;b"

\* the simulator was launched with a fork URL holding `;` and further flags
C12_WitnessAnvil ==
    /\ cmd # NoCmd /\ cmd.file = "anvil" /\ cmd.launched
    /\ cmd.input.forkUrl = Some("a;b") /\ cmd.input.forkBlockNumber = Some(1)

\* a followed cast_send invocation
IsCastSend == IsRunnerCall /\ "tool" \in DOMAIN cmd /\ cmd.tool = "cast_send"

\* C20: a cast_send invocation with no privateKey parameter and no
\* FOUNDRY_PRIVATE_KEY in the environment returns success=false and never
\* runs the cast executable.
C20_NoKeyNoSpawn ==
    (IsCastSend /\ ~TruthyStr(cmd.input.privateKey) /\ ~TruthyStr(cmd.env))
    => /\ cmd.payload.success = FALSE
       /\ ~cmd.launched

IsWalletInfo == cmd # NoCmd /\ "tool" \in DOMAIN cmd /\ cmd.tool = "cast_wallet_info"

\* C21: cast_wallet_info with no FOUNDRY_PRIVATE_KEY configured returns a
\* success=false payload naming the missing key and never runs cast; with a
\* key configured it runs cast exactly once, with that key, and the payload
\* carries an address exactly when that run succeeded (null otherwise).
C21_WalletInfoNeedsKey ==
    IsWalletInfo
    => IF ~TruthyStr(cmd.env)
       THEN /\ cmd.payload = [tool |-> "cast_wallet_info", success |-> FALSE,
                               error |-> NoKeyConfiguredMsg]
            /\ cmd.calls = 0 /\ ~cmd.launched
       ELSE /\ cmd.calls = 1
            /\ cmd.args = <<"wallet", "address", "--private-key", cmd.env[1]>>
            /\ cmd.payload.success = (cmd.outcome.kind = "exit0")
            /\ (cmd.payload.address # Absent) <=> cmd.payload.success

\* no key configured: the refusal was returned
C21_Witness ==
    /\ IsWalletInfo /\ cmd.env = Absent
    /\ cmd.payload.success = FALSE

\* a key configured and the run failed: address is null
C21_WitnessFailedRun ==
    /\ IsWalletInfo /\ TruthyStr(cmd.env)
    /\ cmd.outcome.kind = "nonzero" /\ cmd.payload.address = Absent

----------------------------------------------------------------------------
(* Claims about the session driver, checked under SpecDriver *)

\* the stream the claim describes: each line followed by its newline
RECURSIVE LinesTerminated(_)
LinesTerminated(script) ==
    IF script = <<>> THEN <<>>
    ELSE <<Head(script), "\n">> \o LinesTerminated(Tail(script))

\* C13: one call of runChiselWithScript makes exactly one spawn; when spawn
\* returned a subprocess, what is written to its input stream is every script
\* line followed by a newline, in the supplied order, nothing dropped,
\* duplicated or reordered, and the stream is ended only after that write.
C13_ScriptWrittenInOrder ==
    drv.st = "called"
    => /\ drv.spawns = 1
       /\ drv.outcome # "throw"
          => /\ Len(drv.stdinOps) = 2
             /\ drv.stdinOps[1].op = "write"
             /\ drv.stdinOps[1].data = LinesTerminated(drv.script)
             /\ drv.stdinOps[2].op = "end"

\* a two-line script with distinct lines went to a launched subprocess
C13_Witness ==
    /\ drv.st = "called" /\ drv.outcome = "ok"
    /\ drv.script = <<"l1", "!quit">>
    /\ drv.stdinOps[2].op = "end"

Called == drv.st = "called"
ClosedWith(code) == Called /\ drv.child = "closed" /\ drv.code = code

\* C14: runChiselWithScript resolves exactly when the subprocess closes with
\* code 0, and then the resolved stdout and stderr are the text the subprocess
\* wrote on each stream, all of it and in order; on a nonzero code it rejects
\* with an error whose message embeds the error-stream text written.
C14_ResolveWithTranscript ==
    Called
    => /\ drv.settled = "resolved" <=> ClosedWith("0")
       /\ drv.settled = "resolved"
          => /\ drv.value.stdout = BufferToString(drv.wroteOut)
             /\ drv.value.stderr = BufferToString(drv.wroteErr)
       /\ (drv.child = "closed" /\ drv.code \in CloseCodes \ {"0"})
          => /\ drv.settled = "rejected"
             /\ drv.value = ExitedError(drv.code, BufferToString(drv.wroteErr))

\* The part of C14 that does not depend on how buffers are decoded: the
\* promise resolves exactly on close with code 0, with the two accumulators
\* as they stand, and rejects on any other code with the message built from
\* the code and the stderr accumulator.
C14_SettleLogic ==
    Called
    => /\ drv.settled = "resolved" <=> ClosedWith("0")
       /\ drv.settled = "resolved"
          => drv.value = [kind |-> "result", stdout |-> drv.stdout, stderr |-> drv.stderr]
       /\ (drv.child = "closed" /\ drv.code \in CloseCodes \ {"0"})
          => /\ drv.settled = "rejected"
             /\ drv.value = ExitedError(drv.code, drv.stderr)

\* C15: every driver invocation eventually completes: an invocation whose
\* promise is still pending always has a further step that can happen (the
\* subprocess closing, or a timeout that ends it), so none waits forever.
C15_PendingCanProgress ==
    (Called /\ drv.settled = "pending") => ENABLED NextDriver

\* C15 as a property of whole runs, for SpecDriverFair: a pending invocation
\* is eventually settled
C15_EventuallySettles ==
    (Called /\ drv.settled = "pending") ~> (Called /\ drv.settled # "pending")

----------------------------------------------------------------------------
(* Claims about the script builder, checked under SpecScript *)

\* a script is on its way to runChiselWithScript
PassesScript == built # NoBuilt /\ built.route = "driver"
ToDriver(tool) == PassesScript /\ built.tool = tool

OptVal(opt) == IF opt = Absent THEN "" ELSE opt[1]

\* the elements of a list of candidates that are switched on, in list order
RECURSIVE Chosen(_)
Chosen(cands) ==
    IF cands = <<>> THEN <<>>
    ELSE (IF Head(cands).on THEN <<Head(cands).text>> ELSE <<>>) \o Chosen(Tail(cands))

\* the save directive of the built script: the supplied session, or the
\* identifier the invocation generated
SaveDirective ==
    <<"!save ">> \o (IF built.generated # Absent THEN built.generated[1]
                     ELSE <<OptVal(built.input.sessionId)>>)

ExecLoad == [on |-> TruthyStr(built.input.sessionId),
             text |-> <<"!load ", OptVal(built.input.sessionId)>>]
ExecFork == [on |-> TruthyStr(built.input.forkUrl),
             text |-> <<"!fork ", OptVal(built.input.forkUrl)>>]
ExecTrace == [on |-> built.input.enableTraces, text |-> <<"!traces">>]
ExecCode == [on |-> TRUE, text |-> <<built.input.code>>]
ExecSource == [on |-> \E sub \in {"=", "function", "contract"} : includes(built.input.code, sub),
               text |-> <<"!source">>]
ExecSave == [on |-> built.input.saveSession, text |-> SaveDirective]
ExecQuit == [on |-> TRUE, text |-> <<"!quit">>]

\* C16 as stated: the command list of chisel_execute_code is exactly the
\* sub-sequence of [load, fork, trace, code, save, exit] selected by the
\* options supplied, with nothing else in between.
C16_AsStated ==
    ToDriver("chisel_execute_code")
    => ScriptText(built.script)
       = Chosen(<<ExecLoad, ExecFork, ExecTrace, ExecCode, ExecSave, ExecQuit>>)

\* C16, amended: the command list of chisel_execute_code is exactly the
\* sub-sequence of [load, fork, trace, code, !source, save, exit] selected by
\* the (non-empty) options supplied, where !source is present exactly when
\* the code contains "=", "function" or "contract"; a generated save
\* identifier is session_<Date.now()>.
C16_ExecuteCodeScript ==
    ToDriver("chisel_execute_code")
    => /\ ScriptText(built.script)
          = Chosen(<<ExecLoad, ExecFork, ExecTrace, ExecCode, ExecSource, ExecSave, ExecQuit>>)
       /\ built.generated # Absent
          => \E now \in 0..MaxClock : built.generated[1] = <<"session_", DateNowStr(now)>>

\* the example of the claim: code "x = 1" with a fork URL, traces and
\* saveSession, no session id
C16_Witness ==
    /\ ToDriver("chisel_execute_code")
    /\ built.input.code = "x = 1" /\ built.input.sessionId = Absent
    /\ TruthyStr(built.input.forkUrl) /\ built.input.enableTraces
    /\ built.input.saveSession

Phase(role) ==
    CASE role = "load" -> 1 [] role = "fork" -> 2 [] role = "traces" -> 3
      [] role = "primary" -> 4 [] role = "inspect" -> 5 [] role = "save" -> 6
      [] role = "quit" -> 7

InPhaseOrder(script) ==
    \A i, j \in 1..Len(script) :
        i < j => Phase(script[i].role) <= Phase(script[j].role)

IsFork(l) == l.role = "fork"
NotFork(l) == l.role # "fork"

\* C17 as stated: in every script any chisel tool produces, the directives
\* present appear in the phase order load, fork, tracing, primary, debug
\* introspection, save, exit.
C17_AsStated ==
    PassesScript => InPhaseOrder(built.script)

\* C17, amended: the scripts of execute_code, debug_expression,
\* session_manager and experiment_builder are in phase order; in the script
\* of fetch_interface everything but the fork directive is in phase order,
\* and the fork directive, present exactly when a test call is given, comes
\* right after the !fetch directive and right before the test call. In every
\* script no save directive precedes an introspection directive.
C17_PhaseOrder ==
    PassesScript
    => /\ built.tool # "chisel_fetch_interface" => InPhaseOrder(built.script)
       /\ built.tool = "chisel_fetch_interface"
          => /\ InPhaseOrder(SelectSeq(built.script, NotFork))
             /\ Len(SelectSeq(built.script, IsFork))
                = (IF TruthyStr(built.input.testCall) THEN 1 ELSE 0)
             /\ \A i \in 1..Len(built.script) :
                   IsFork(built.script[i])
                   => /\ i > 1 /\ built.script[i - 1].text[1] = "!fetch "
                      /\ i < Len(built.script)
                      /\ built.script[i + 1].text = <<built.input.testCall[1]>>
       /\ \A i, j \in 1..Len(built.script) :
             (built.script[i].role = "save" /\ built.script[j].role = "inspect") => j < i

\* fetch_interface built a script with a test call and a save directive
C17_Witness ==
    /\ ToDriver("chisel_fetch_interface")
    /\ TruthyStr(built.input.testCall) /\ built.input.saveSession
    /\ TruthyStr(built.input.sessionId)

\* C18: every script a chisel tool passes to runChiselWithScript is non-empty
\* and has "!quit" as its last element.
C18_EndsWithQuit ==
    PassesScript
    => /\ built.script # <<>>
       /\ ScriptText(built.script)[Len(built.script)] = <<"!quit">>

\* session_manager passed its shortest script, for the save action
C18_Witness ==
    /\ ToDriver("chisel_session_manager")
    /\ built.input.action = "save"
    /\ Len(built.script) = 2

\* C19: any two invocations that request saving without supplying a session
\* reference generate different session identifiers, also when both generate
\* theirs within the same clock tick.
C19_GeneratedIdsDiffer ==
    \A i, j \in 1..Len(saved) : i # j => saved[i] # saved[j]

-----------------------------------------------------------------------------
(* Claims about the chisel tool handlers, checked under SpecHandler *)

HandlerReturned(tool) == resp # <<>> /\ resp[1].tool = tool

\* C24 as stated: after chisel_execute_code has returned, on the success
\* path and on every failure path, the temporary script file it wrote into
\* the project directory no longer exists, and no sequence of invocations
\* leaves .chisel_script_* files behind. The code never removes the file.
C24_TempFileRemoved ==
    /\ HandlerReturned("chisel_execute_code") /\ resp[1].scriptPath # Absent
           => resp[1].scriptPath[1] \notin files
    /\ (built = NoBuilt /\ drv = NoDrv) => files = {}

\* two invocations have each left their script file in the project directory
C24_Accumulates == Cardinality(files) >= 2

\* C26 as stated: when saving is requested without a session reference, the
\* sessionId in the success payload of chisel_execute_code,
\* chisel_fetch_interface and chisel_experiment_builder is exactly the
\* identifier that was put in the !save directive sent to the subprocess. The
\* code builds the reported identifier from a second Date.now() taken after
\* the subprocess has ended.
C26_ReportedIdIsSavedId ==
    \A i \in 1..Len(resp) :
        (/\ resp[i].tool \in {"chisel_execute_code", "chisel_fetch_interface",
                              "chisel_experiment_builder"}
         /\ resp[i].generated # Absent
         /\ resp[i].payload.success)
        => resp[i].payload.sessionId = resp[i].generated

\* the Error 'error' rejects with when the child could not be launched
LaunchError == [kind |-> "error", message |-> SpawnENOENTMsg]

\* C28: for one runChiselWithScript call, in whatever order the subprocess's
\* 'data', 'error' and 'close' events arrive, the promise is settled once, by
\* the first of 'close' and 'error' (for a child that could not be launched
\* 'error' comes first and the 'close' after it changes nothing), the outcome
\* the handler was given is still the promise's outcome after every later
\* event, and the handler returns exactly one payload, built from it.
C28_SettledOnceOnePayload ==
    /\ Len(resp) <= 1
    /\ (drv # NoDrv /\ built = NoBuilt) => Len(resp) = 1
    /\ (resp # <<>> /\ drv # NoDrv)
       => /\ drv.settled # "pending"
          /\ drv.value = resp[1].delivered
          /\ resp[1].payload = Payload([tool |-> resp[1].tool, input |-> resp[1].input],
                                       drv.value, clock)
             \/ resp[1].generated # Absent
    /\ (drv # NoDrv /\ drv.outcome = "asyncError" /\ ~drv.errorQueued)
       => drv.settled = "rejected" /\ drv.value = LaunchError
    /\ (drv # NoDrv /\ drv.outcome = "ok" /\ drv.child # "closed")
       => drv.settled = "pending"

\* the handler has returned its payload for a child that could not be
\* launched, and the 'close' that follows 'error' has arrived since
C28_Witness ==
    /\ Len(resp) = 1 /\ resp[1].spawns = 1
    /\ resp[1].delivered = LaunchError
    /\ resp[1].payload.success = FALSE /\ resp[1].payload.error = SpawnENOENTMsg
    /\ drv # NoDrv /\ drv.child = "closed" /\ drv.code = SpawnFailedCode

IsSessionManager(r) == r.tool = "chisel_session_manager"

\* the name the claim gives the save directive: newSessionName if given, else
\* sessionId if given, else 'default' (an empty string counts as not given)
C29_SaveName(in) ==
    IF in.newSessionName \notin {Absent, Some("")} THEN in.newSessionName[1]
    ELSE IF in.sessionId \notin {Absent, Some("")} THEN in.sessionId[1]
    ELSE "default"

\* C29: chisel_session_manager with action view, load or export and no
\* sessionId returns a success=false payload that carries the action and the
\* error "Session ID required for <action> action", and no subprocess is
\* spawned for it; with action save the script handed to the driver begins
\* with the save directive naming newSessionName if given, else sessionId if
\* given, else 'default'.
C29_SessionManagerChecks ==
    /\ \A i \in 1..Len(resp) :
           (/\ IsSessionManager(resp[i])
            /\ resp[i].input.action \in {"view", "load", "export"}
            /\ resp[i].input.sessionId \in {Absent, Some("")})
           => /\ resp[i].payload.success = FALSE
              /\ resp[i].payload.action = resp[i].input.action
              /\ resp[i].payload.error =
                     <<"Session ID required for ", resp[i].input.action, " action">>
              /\ resp[i].spawns = 0
              /\ drv = NoDrv
    /\ (/\ built # NoBuilt /\ IsSessionManager(built)
        /\ built.input.action \in {"view", "load", "export"}
        /\ built.input.sessionId \in {Absent, Some("")})
       => built.route = "throw" /\ drv = NoDrv
    /\ (built # NoBuilt /\ IsSessionManager(built) /\ built.input.action = "save")
       => /\ built.route = "driver"
          /\ ScriptText(built.script) =
                 <<<<"!save ", C29_SaveName(built.input)>>, <<"!quit">>>>
          /\ drv # NoDrv => drv.script = ScriptText(built.script)

\* a load without a session id has been refused
C29_Witness ==
    /\ Len(resp) = 1 /\ IsSessionManager(resp[1])
    /\ resp[1].input.action = "load" /\ resp[1].input.sessionId = Absent
    /\ resp[1].payload.success = FALSE /\ resp[1].spawns = 0

\* a save with both names given has reached the subprocess under newSessionName
C29_WitnessSave ==
    /\ built # NoBuilt /\ IsSessionManager(built) /\ built.input.action = "save"
    /\ built.input.newSessionName = Some("n1") /\ built.input.sessionId = Some("s1")
    /\ drv # NoDrv /\ drv.child = "closed"
    /\ drv.script[1] = <<"!save ", "n1">>

-----------------------------------------------------------------------------
(* Claims about the registry among the other tools, checked under SpecFrame *)

\* a step of one of the three operations that own the slot: the handler of
\* anvil_start or anvil_stop runs, or the host exits through cleanupAnvil
OwnerStep ==
    \/ \E t \in Tasks : Ran(t, "anvil_start") \/ Ran(t, "anvil_stop")
    \/ host = "up" /\ host' \in {"exit(0)", "exit(1)"}

\* a step of a forge, cast or gas invocation (a Command Runner call), of a
\* chisel invocation (a driver call), or of anvil_status
OtherToolStep ==
    \/ cmd' # cmd
    \/ drv' # drv
    \/ \E t \in Tasks : Ran(t, "anvil_status")

\* the slot is as it was, no simulator was spawned and none was signalled
HeldUntouched ==
    /\ anvilProcess' = anvilProcess
    /\ Len(children') = Len(children)
    /\ \A h \in 1..Len(children) :
           /\ children'[h].killCalls = children[h].killCalls
           /\ children'[h].sigterms = children[h].sigterms
           /\ children'[h].killed = children[h].killed

\* C25: the registry slot is modified, and a simulator spawned or signalled,
\* only by anvil_start, anvil_stop and cleanupAnvil; every step of a forge,
\* cast, gas or chisel invocation and of anvil_status leaves the slot and the
\* held process as they were, however the invocations interleave.
C25_SlotFrame ==
    [][/\ ~HeldUntouched => OwnerStep
       /\ OtherToolStep => HeldUntouched]_vars

\* while the registry holds a live simulator, a Command Runner call and a
\* chisel run have been made and the simulator is still held and unsignalled
C25_Witness ==
    /\ anvilProcess # NULL /\ children[anvilProcess].st = "running"
    /\ children[anvilProcess].sigterms = 0
    /\ cmd # NoCmd /\ cmd.file = "forge"
    /\ drv # NoDrv /\ drv.child = "closed"

-----------------------------------------------------------------------------
(* Claims about gas_regression_test, checked under SpecGas *)

\* the lines of the diff the invocation received
C30_DiffLines ==
    IF gas.diff[1].stdout = <<>> THEN <<>> ELSE SplitLines(gas.diff[1].stdout, <<>>)

\* the percentage of a line that reports an increase for a test, in
\* thousandths: the change is printed with a plus sign or unsigned
C30_Increase(line) ==
    IF line \in {PlusLine("10.000"), PlainLine("10.000")} THEN 10000
    ELSE IF line \in {PlusLine("5.000"), PlainLine("5.000")} THEN 5000
    ELSE 0

\* the same, counting only the lines printed with plus signs
C30_SignedIncrease(line) ==
    IF line = PlusLine("10.000") THEN 10000
    ELSE IF line = PlusLine("5.000") THEN 5000
    ELSE 0

\* the parts of C30 about the two steps and about the listed regressions
C30_Steps ==
    /\ gas.calls[1] = snapshotArgs
    /\ gas.snapshot[1].kind # "exit0"
       => /\ Len(gas.calls) = 1 /\ gas.diff = Absent
          /\ gas.payload.success = FALSE
    /\ gas.snapshot[1].kind = "exit0"
       => /\ Len(gas.calls) = 2 /\ gas.diff # Absent
          /\ gas.calls[2] = <<"snapshot", "--diff", baselineOf(gas.input)>>
          /\ gas.payload.hasRegressions <=> gas.payload.totalRegressions > 0
          /\ gas.payload.totalRegressions = Len(gas.payload.regressions)
          /\ \A i \in 1..Len(gas.payload.regressions) :
                 gas.payload.regressions[i].percentIncrease
                     > thresholdOf(gas.input) * 1000

\* C30 as stated: gas_regression_test runs the snapshot step first and, if it
\* fails, returns success=false without running the diff step; otherwise it
\* runs the diff exactly once and reports success=false exactly when
\* failOnRegression is set and at least one diff line shows a percentage
\* increase strictly greater than threshold, with hasRegressions true iff
\* totalRegressions > 0 and every listed regression above the threshold. The
\* code recognises an increase only in a line of the form
\* "(gas: +N (+P%))"; an increase printed without plus signs is passed over.
C30_AsStated ==
    gas.phase = "returned"
    => /\ C30_Steps
       /\ gas.diff # Absent
          => (gas.payload.success = FALSE
              <=> /\ gas.input.failOnRegression = Some(TRUE)
                  /\ \E i \in 1..Len(C30_DiffLines) :
                         C30_Increase(C30_DiffLines[i]) > thresholdOf(gas.input) * 1000)

\* what the code does satisfy: the same with the increases read from the
\* lines printed with plus signs only
C30_SignedOnly ==
    gas.phase = "returned"
    => /\ C30_Steps
       /\ gas.diff # Absent
          => (gas.payload.success = FALSE
              <=> /\ gas.input.failOnRegression = Some(TRUE)
                  /\ \E i \in 1..Len(C30_DiffLines) :
                         C30_SignedIncrease(C30_DiffLines[i])
                             > thresholdOf(gas.input) * 1000)


====
